---- MODULE Spec2Model ----
(***************************************************************************)
(* A model of the heap storage engine of rust-pg: the slotted page         *)
(* (page.rs), the tuple header and its byte layout (heap_tuple.rs), the    *)
(* block storage (storage.rs, relation.rs), the transaction manager        *)
(* (transaction.rs), the visibility predicates (visibility.rs) and the     *)
(* heap operations (heap.rs).                                              *)
(*                                                                         *)
(* Byte strings are kept exact but compressed: a byte string is a sequence *)
(* of chunks, each either a run of n equal bytes or one serialized header  *)
(* (tuple header, page header, item id) kept as a record.  Such a chunk is *)
(* expanded into its little-endian bytes only when a slice cuts through it.*)
(***************************************************************************)
EXTENDS Integers, Sequences, FiniteSets, TLC

----------------------------------------------------------------------------
(* Program constants (constants.rs, page.rs).                              *)

BLCKSZ == 8192
PAGE_HEADER_SIZE == 24
ITEM_ID_SIZE == 4
HEAP_FIXED_HEADER_SIZE == 24
INVALID_TRANSACTION_ID == 0
BOOTSTRAP_TRANSACTION_ID == 1
FIRST_NORMAL_TRANSACTION_ID == 2
FIRST_COMMAND_ID == 1
INVALID_OFFSET_NUMBER == 0
PD_HAS_FREE_LINES == 1
PD_PAGE_FULL == 2
PD_ALL_VISIBLE == 4
PAGE_FULL_THRESHOLD == 32
HEAP_HASNULL == 1
HEAP_XMIN_COMMITTED == 256
HEAP_XMIN_INVALID == 512
HEAP_XMAX_COMMITTED == 1024
HEAP_XMAX_INVALID == 2048
HEAP_XMAX_IS_LOCKED_ONLY == 4096
HEAP_NATTS_MASK == 4095
LP_NORMAL == 0
LP_USED == 1
LP_DEAD == 2
ITEM_FIELD_MOD == 32768
HEAP_PAGE_VERSION == 4
U16 == 65536

----------------------------------------------------------------------------
(* Bounds of the model.                                                    *)

\* begin() is offered while next_xid < MaxXid: transactions 2 .. MaxXid - 1.
MaxXid == 4
\* Heap operations take a command id in 1 .. MaxCid.
MaxCid == 1
\* insert/update are offered while the relation holds fewer than MaxItems
\* item ids in all pages together.
MaxItems == 2
\* Payload lengths of the tuples the clients insert: two short tuples share a
\* page; a long one fills a page so that the next tuple goes to another block.
ShortLen == 100
LongLen == 8120
\* Payloads are ShortLen or LongLen copies of one byte in 1 .. MaxByte.
MaxByte == 1
\* Attribute count the relation is created with.
Natts == 2
\* The threads that call the transaction manager concurrently: 1 .. NThreads.
NThreads == 2
\* add_item is offered while the page under test has fewer than MaxSlots item ids.
MaxSlots == 3
\* The bodies given to add_item and written in place are runs of one byte in
\* 1 .. MaxFill, of ShortLen, LongLen or HugeLen bytes; HugeLen is a length
\* that does not fit the u16 add_item keeps it in.
MaxFill == 2
HugeLen == 65636
\* Tuples are made with 0, Natts or WideNatts attributes; WideNatts takes a
\* null bitmap of two bytes.
WideNatts == 9
\* allocate_page is called while the high-water mark is below MaxBlock.
MaxBlock == 2
\* The payload of an insert that fits no page, not even an empty one.
OverLen == 8192

----------------------------------------------------------------------------
(* Arithmetic helpers.                                                     *)

Min(a, b) == IF a < b THEN a ELSE b

Max(a, b) == IF a > b THEN a ELSE b

\* (x & mask) != 0 for a one-bit mask.
HasBit(x, mask) == (x \div mask) % 2 = 1

SetBit(x, mask, on) ==
    IF on THEN (IF HasBit(x, mask) THEN x ELSE x + mask)
    ELSE (IF HasBit(x, mask) THEN x - mask ELSE x)

\* (off + 7) & !7
Align8(n) == ((n + 7) \div 8) * 8

RECURSIVE SeqSum(_)
SeqSum(s) == IF s = <<>> THEN 0 ELSE Head(s) + SeqSum(Tail(s))

----------------------------------------------------------------------------
(* Byte strings.                                                           *)

\* The tuple header as it lies in 24 bytes (HeapTupleHeaderData::serialize
\* writes 23 bytes, the 24th is padding).
NoHdr ==
    [t_xmin |-> -1, t_xmax |-> -1, t_cid |-> -1, blk |-> -1, off |-> -1,
     t_infomask2 |-> -1, t_infomask |-> -1, t_hoff |-> -1, pad |-> -1]

ZeroHdr ==
    [t_xmin |-> 0, t_xmax |-> 0, t_cid |-> 0, blk |-> 0, off |-> 0,
     t_infomask2 |-> 0, t_infomask |-> 0, t_hoff |-> 0, pad |-> 0]

\* A chunk is a run of n bytes of value b (k = "run"), or a structured chunk
\* holding a record h: a serialized tuple header (k = "tuple_hdr", 24 bytes),
\* a serialized page header (k = "page_hdr", 24 bytes) or a serialized item
\* id (k = "item_id", 4 bytes).
Run(n, b) == [n |-> n, k |-> "run", b |-> b, h |-> NoHdr]

HdrChunk(h) == [n |-> HEAP_FIXED_HEADER_SIZE, k |-> "tuple_hdr", b |-> 0, h |-> h]

PageHdrChunk(h) == [n |-> PAGE_HEADER_SIZE, k |-> "page_hdr", b |-> 0, h |-> h]

ItemChunk(it) == [n |-> ITEM_ID_SIZE, k |-> "item_id", b |-> 0, h |-> it]

IsStruct(c) == c.k # "run"

Zeros(n) == IF n = 0 THEN <<>> ELSE <<Run(n, 0)>>

RECURSIVE BLen(_)
BLen(bs) == IF bs = <<>> THEN 0 ELSE Head(bs).n + BLen(Tail(bs))

\* Little-endian bytes of an unsigned integer of w bytes.
RECURSIVE LEBytes(_, _)
LEBytes(x, w) == IF w = 0 THEN <<>> ELSE <<x % 256>> \o LEBytes(x \div 256, w - 1)

RECURSIVE LEValue(_)
LEValue(bytes) == IF bytes = <<>> THEN 0 ELSE Head(bytes) + 256 * LEValue(Tail(bytes))

\* HeapTupleHeaderData::serialize, byte by byte.
HdrBytes(h) ==
    LEBytes(h.t_xmin, 4) \o LEBytes(h.t_xmax, 4) \o LEBytes(h.t_cid, 4)
      \o LEBytes(h.blk, 4) \o LEBytes(h.off, 2) \o LEBytes(h.t_infomask2, 2)
      \o LEBytes(h.t_infomask, 2) \o LEBytes(h.t_hoff, 1) \o LEBytes(h.pad, 1)

\* HeapTupleHeaderData::deserialize, byte by byte.
HdrOfBytes(b) ==
    [t_xmin |-> LEValue(SubSeq(b, 1, 4)), t_xmax |-> LEValue(SubSeq(b, 5, 8)),
     t_cid |-> LEValue(SubSeq(b, 9, 12)), blk |-> LEValue(SubSeq(b, 13, 16)),
     off |-> LEValue(SubSeq(b, 17, 18)), t_infomask2 |-> LEValue(SubSeq(b, 19, 20)),
     t_infomask |-> LEValue(SubSeq(b, 21, 22)), t_hoff |-> b[23], pad |-> b[24]]

\* PageHeaderData::serialize, byte by byte.
PageHdrBytes(h) ==
    LEBytes(h.pd_lsn, 8) \o LEBytes(h.pd_checksum, 2) \o LEBytes(h.pd_flags, 2)
      \o LEBytes(h.pd_lower, 2) \o LEBytes(h.pd_upper, 2) \o LEBytes(h.pd_special, 2)
      \o LEBytes(h.pd_pagesize_version, 2) \o LEBytes(h.pd_prune_xid, 4)

\* PageHeaderData::deserialize, byte by byte.
PageHdrOfBytes(b) ==
    [pd_lsn |-> LEValue(SubSeq(b, 1, 8)), pd_checksum |-> LEValue(SubSeq(b, 9, 10)),
     pd_flags |-> LEValue(SubSeq(b, 11, 12)), pd_lower |-> LEValue(SubSeq(b, 13, 14)),
     pd_upper |-> LEValue(SubSeq(b, 15, 16)), pd_special |-> LEValue(SubSeq(b, 17, 18)),
     pd_pagesize_version |-> LEValue(SubSeq(b, 19, 20)),
     pd_prune_xid |-> LEValue(SubSeq(b, 21, 24))]

\* ItemIdData: offset (15 bits), length (15 bits) and flags (2 bits) packed in
\* a u32; its four little-endian bytes (the flags are the top two bits of the
\* last byte).
ItemBytes(it) ==
    LET low == LEBytes(it.off + ITEM_FIELD_MOD * it.len, ITEM_ID_SIZE)
    IN  [low EXCEPT ![ITEM_ID_SIZE] = @ + 64 * it.flags]

ItemOfBytes(b) ==
    LET low == LEValue([b EXCEPT ![ITEM_ID_SIZE] = @ % 64])
    IN  [off |-> low % ITEM_FIELD_MOD, len |-> low \div ITEM_FIELD_MOD,
         flags |-> b[ITEM_ID_SIZE] \div 64]

\* Merge neighbouring runs of the same byte; drop empty runs.
RECURSIVE BNorm(_)
BNorm(bs) ==
    IF bs = <<>> THEN <<>>
    ELSE LET c == Head(bs)
             r == BNorm(Tail(bs))
         IN  IF c.n = 0 THEN r
             ELSE IF r # <<>> /\ ~IsStruct(c) /\ ~IsStruct(Head(r)) /\ Head(r).b = c.b
                  THEN <<Run(c.n + Head(r).n, c.b)>> \o Tail(r)
                  ELSE <<c>> \o r

\* The bytes of a structured chunk.
ChunkBytes(c) ==
    IF c.k = "tuple_hdr" THEN HdrBytes(c.h)
    ELSE IF c.k = "page_hdr" THEN PageHdrBytes(c.h)
    ELSE ItemBytes(c.h)

\* A chunk as single-byte runs when it is structured, itself otherwise.
Explode(c) ==
    IF IsStruct(c)
    THEN LET b == ChunkBytes(c) IN [i \in 1..c.n |-> Run(1, b[i])]
    ELSE <<c>>

\* The bytes from position k (0-based) to the end.
RECURSIVE BDropRaw(_, _)
BDropRaw(bs, k) ==
    IF k = 0 \/ bs = <<>> THEN bs
    ELSE LET c == Head(bs)
         IN  IF k >= c.n THEN BDropRaw(Tail(bs), k - c.n)
             ELSE IF IsStruct(c) THEN BDropRaw(Explode(c) \o Tail(bs), k)
             ELSE <<Run(c.n - k, c.b)>> \o Tail(bs)

\* The first k bytes.
RECURSIVE BTakeRaw(_, _)
BTakeRaw(bs, k) ==
    IF k = 0 \/ bs = <<>> THEN <<>>
    ELSE LET c == Head(bs)
         IN  IF k >= c.n THEN <<c>> \o BTakeRaw(Tail(bs), k - c.n)
             ELSE IF IsStruct(c) THEN BTakeRaw(Explode(c) \o Tail(bs), k)
             ELSE <<Run(k, c.b)>>

BDrop(bs, k) == BNorm(BDropRaw(bs, k))

BTake(bs, k) == BNorm(BTakeRaw(bs, k))

\* &buf[from .. from + len]
BSlice(bs, from, len) == BTake(BDropRaw(bs, from), len)

\* buf[at .. at + BLen(src)].copy_from_slice(src)
BWrite(bs, at, src) ==
    BNorm(BTakeRaw(bs, at) \o src \o BDropRaw(bs, at + BLen(src)))

\* The bytes one by one (used for at most a header's worth).
RECURSIVE BList(_)
BList(bs) ==
    IF bs = <<>> THEN <<>>
    ELSE LET c == Head(bs)
         IN  IF IsStruct(c) THEN ChunkBytes(c) \o BList(Tail(bs))
             ELSE IF c.n = 0 THEN BList(Tail(bs))
             ELSE <<c.b>> \o BList(<<Run(c.n - 1, c.b)>> \o Tail(bs))

\* The tuple header that the first 24 bytes of a buffer decode to.
HdrAt0(bs) ==
    IF bs # <<>> /\ Head(bs).k = "tuple_hdr" THEN Head(bs).h
    ELSE IF bs # <<>> /\ Head(bs).k = "run" /\ Head(bs).n >= HEAP_FIXED_HEADER_SIZE /\ Head(bs).b = 0
         THEN ZeroHdr
    ELSE HdrOfBytes(BList(BTakeRaw(bs, HEAP_FIXED_HEADER_SIZE)))

\* The page header that the first 24 bytes of an image decode to.
PageHdrAt0(bs) ==
    IF bs # <<>> /\ Head(bs).k = "page_hdr" THEN Head(bs).h
    ELSE PageHdrOfBytes(BList(BTakeRaw(bs, PAGE_HEADER_SIZE)))

\* u32::from_le_bytes of the four bytes at pos, as an item id.
ItemAt(bs, pos) ==
    LET Decode(s) ==
            IF s # <<>> /\ Head(s).k = "item_id" THEN Head(s).h
            ELSE ItemOfBytes(BList(BTakeRaw(s, ITEM_ID_SIZE)))
    IN  Decode(BDropRaw(bs, pos))

----------------------------------------------------------------------------
(* Tuples (heap_tuple.rs).                                                 *)

InvalidItemPointer == [block_number |-> 0, offset_number |-> 0]

NoBitmap == [some |-> FALSE, bytes |-> <<>>]

\* HeapTupleHeaderData::compute_hoff
compute_hoff(natts, has_null) ==
    Align8(HEAP_FIXED_HEADER_SIZE + (IF has_null THEN (natts + 7) \div 8 ELSE 0)) % 256

\* HeapTupleHeaderData::new
HeaderNew(natts) ==
    [t_xmin |-> INVALID_TRANSACTION_ID, t_xmax |-> INVALID_TRANSACTION_ID, t_cid |-> 0,
     t_ctid |-> InvalidItemPointer, t_infomask2 |-> natts, t_infomask |-> 0,
     t_hoff |-> compute_hoff(natts, FALSE)]

has_null(header) == HasBit(header.t_infomask, HEAP_HASNULL)

xmin_committed(header) == HasBit(header.t_infomask, HEAP_XMIN_COMMITTED)

xmin_invalid(header) == HasBit(header.t_infomask, HEAP_XMIN_INVALID)

xmax_committed(header) == HasBit(header.t_infomask, HEAP_XMAX_COMMITTED)

xmax_invalid(header) == HasBit(header.t_infomask, HEAP_XMAX_INVALID)

xmax_is_locked_only(header) == HasBit(header.t_infomask, HEAP_XMAX_IS_LOCKED_ONLY)

\* HeapTuple::with_data
with_data(natts, data, hasnull) ==
    [header |-> [HeaderNew(natts) EXCEPT !.t_infomask = IF hasnull THEN HEAP_HASNULL ELSE 0],
     null_bitmap |-> IF hasnull /\ natts > 0
                     THEN [some |-> TRUE, bytes |-> Zeros((natts + 7) \div 8)]
                     ELSE NoBitmap,
     data |-> data]

\* The size without the null bitmap.
TupleSizeNoBitmap(t) == HEAP_FIXED_HEADER_SIZE + BLen(t.data)

\* HeapTuple::size
TupleSize(t) ==
    Align8(HEAP_FIXED_HEADER_SIZE
             + (IF has_null(t.header) /\ t.null_bitmap.some THEN BLen(t.null_bitmap.bytes) ELSE 0))
      + BLen(t.data)

\* HeapTupleHeaderData::serialize: the header as its 24 bytes.
SerializeHeader(header) ==
    [t_xmin |-> header.t_xmin, t_xmax |-> header.t_xmax, t_cid |-> header.t_cid,
     blk |-> header.t_ctid.block_number, off |-> header.t_ctid.offset_number,
     t_infomask2 |-> header.t_infomask2, t_infomask |-> header.t_infomask,
     t_hoff |-> header.t_hoff, pad |-> 0]

\* HeapTupleHeaderData::deserialize: the 24th byte is not read.
DeserializeHeader(h) ==
    [t_xmin |-> h.t_xmin, t_xmax |-> h.t_xmax, t_cid |-> h.t_cid,
     t_ctid |-> [block_number |-> h.blk, offset_number |-> h.off],
     t_infomask2 |-> h.t_infomask2, t_infomask |-> h.t_infomask, t_hoff |-> h.t_hoff]

\* HeapTuple::serialize: a zeroed buffer of size() bytes, the header, the null
\* bitmap when there is one, and the payload at the next 8-byte boundary.
\* (The writes stay inside the buffer for every tuple with_data builds.)
TupleSerialize(t) ==
    LET bl == IF t.null_bitmap.some THEN BLen(t.null_bitmap.bytes) ELSE 0
        offset == Align8(HEAP_FIXED_HEADER_SIZE + bl)
        WithBitmap(buf1) ==
            IF t.null_bitmap.some
            THEN BWrite(buf1, HEAP_FIXED_HEADER_SIZE, t.null_bitmap.bytes)
            ELSE buf1
        WithHeader(buf0) == BWrite(buf0, 0, <<HdrChunk(SerializeHeader(t.header))>>)
    IN  BWrite(WithBitmap(WithHeader(Zeros(TupleSize(t)))), offset, t.data)

\* HeapTuple::serialize returns: both slices it copies into lie inside the
\* buffer of size() bytes (a slice past the end panics).
TupleSerializeOk(t) ==
    LET bl == IF t.null_bitmap.some THEN BLen(t.null_bitmap.bytes) ELSE 0
    IN  /\ HEAP_FIXED_HEADER_SIZE + bl <= TupleSize(t)
        /\ Align8(HEAP_FIXED_HEADER_SIZE + bl) + BLen(t.data) <= TupleSize(t)

\* HeapTuple::deserialize; buffers shorter than a header are refused.
TupleDeserializeOk(buf) == BLen(buf) >= HEAP_FIXED_HEADER_SIZE

TupleDeserialize(buf, natts) ==
    LET Built(header, null_bitmap_size, offset) ==
            [header |-> header,
             null_bitmap |->
                 IF has_null(header) /\ BLen(buf) >= HEAP_FIXED_HEADER_SIZE + null_bitmap_size
                 THEN [some |-> TRUE,
                       bytes |-> BSlice(buf, HEAP_FIXED_HEADER_SIZE, null_bitmap_size)]
                 ELSE NoBitmap,
             data |-> IF offset < BLen(buf) THEN BDrop(buf, offset) ELSE <<>>]
        Sized(header, null_bitmap_size) ==
            Built(header, null_bitmap_size, Align8(HEAP_FIXED_HEADER_SIZE + null_bitmap_size))
        Headed(header) ==
            Sized(header, IF has_null(header) THEN (natts + 7) \div 8 ELSE 0)
    IN  Headed(DeserializeHeader(HdrAt0(buf)))

\* HeapTuple::set_null for attnum >= 1: bitmap[byte_idx] |= 1 << bit_idx
set_null(t, attnum) ==
    LET byte_idx == (attnum - 1) \div 8
        Marked(bitmap, old) ==
            BWrite(bitmap, byte_idx, <<Run(1, SetBit(old, 2^((attnum - 1) % 8), TRUE))>>)
    IN  IF t.null_bitmap.some /\ byte_idx < BLen(t.null_bitmap.bytes)
        THEN [t EXCEPT !.null_bitmap.bytes =
                  Marked(@, BList(BSlice(@, byte_idx, 1))[1])]
        ELSE t

\* A byte string with every serialized header laid out as its bytes.
RECURSIVE Flat(_)
Flat(bs) == IF bs = <<>> THEN <<>> ELSE BNorm(Explode(Head(bs)) \o Flat(Tail(bs)))

----------------------------------------------------------------------------
(* Pages (page.rs).                                                        *)

\* PageHeaderData::new
PageHeaderNew(size) ==
    [pd_lsn |-> 0, pd_checksum |-> 0, pd_flags |-> 0, pd_lower |-> PAGE_HEADER_SIZE,
     pd_upper |-> size % U16, pd_special |-> size % U16,
     pd_pagesize_version |-> (((size % U16) * 16) % U16) + HEAP_PAGE_VERSION,
     pd_prune_xid |-> 0]

\* Page::new
PageNew(page_size) ==
    [header |-> PageHeaderNew(page_size), item_id_data |-> <<>>,
     data |-> Zeros(page_size), page_size |-> page_size]

\* PageHeaderData::free_space
free_space(page) == page.header.pd_upper - page.header.pd_lower

item_count(page) == Len(page.item_id_data)

\* ItemIdData::set
ItemIdSet(off, len, flags) ==
    [off |-> off % ITEM_FIELD_MOD, len |-> len % ITEM_FIELD_MOD, flags |-> flags % 4]

\* Page::get_item and Page::get_item_mut decide alike whether there is a span.
HasItem(page, offset) ==
    /\ offset >= 1
    /\ offset - 1 < Len(page.item_id_data)
    /\ page.item_id_data[offset].flags = LP_USED
    /\ page.item_id_data[offset].off + page.item_id_data[offset].len <= page.page_size

\* Page::get_item: the span of a slot for which HasItem holds.
get_item(page, offset) ==
    BSlice(page.data, page.item_id_data[offset].off, page.item_id_data[offset].len)

\* Writing through Page::get_item_mut: tuple_data[..len(src)].copy_from_slice(src).
put_item(page, offset, src) ==
    [page EXCEPT !.data = BWrite(page.data, page.item_id_data[offset].off, src)]

\* Page::add_item succeeds when the free space takes the item and its id.
AddItemOk(page, bytes) == free_space(page) >= (BLen(bytes) % U16) + ITEM_ID_SIZE

\* Page::add_item on success: the page after it.
add_item(page, bytes) ==
    LET item_len == BLen(bytes) % U16
        new_offset == page.header.pd_upper - item_len
        hdr1 == [page.header EXCEPT !.pd_upper = new_offset,
                                    !.pd_lower = (page.header.pd_lower + ITEM_ID_SIZE) % U16]
        free1 == hdr1.pd_upper - hdr1.pd_lower
        flags1 == SetBit(SetBit(hdr1.pd_flags, PD_HAS_FREE_LINES, FALSE),
                         PD_PAGE_FULL, free1 < PAGE_FULL_THRESHOLD)
    IN  [page EXCEPT !.header = [hdr1 EXCEPT !.pd_flags = flags1],
                     !.data = BWrite(page.data, new_offset, bytes),
                     !.item_id_data = Append(page.item_id_data,
                                             ItemIdSet(new_offset, item_len, LP_USED))]

\* The 0-based index of the new item id instead.
AddItemIndex(page) == Len(page.item_id_data) % U16

\* Page::add_item on success: the 1-based offset number it returns.
AddItemOffset(page) == (Len(page.item_id_data) % U16) + 1

\* Page::remove_item fails for a slot beyond the item ids.
RemoveItemOk(page, offset) == offset >= 1 /\ offset - 1 < Len(page.item_id_data)

\* remove_item setting pd_upper to off + len wherever that lies.
remove_item_unguarded(page, offset) ==
    [page EXCEPT
       !.item_id_data[offset] = [off |-> 0, len |-> 0, flags |-> LP_DEAD],
       !.header.pd_upper = page.item_id_data[offset].off + page.item_id_data[offset].len,
       !.header.pd_flags = SetBit(@, PD_HAS_FREE_LINES, TRUE)]

\* Page::remove_item
remove_item(page, offset) ==
    LET item_id == page.item_id_data[offset]
        new_upper == item_id.off + item_id.len
    IN  [page EXCEPT
           !.item_id_data[offset] = [off |-> 0, len |-> 0, flags |-> LP_DEAD],
           !.header.pd_upper = IF new_upper > page.header.pd_upper THEN new_upper ELSE @,
           !.header.pd_flags = SetBit(@, PD_HAS_FREE_LINES, TRUE)]

\* Page::add_item passes its free-space check with the length cut to u16 and
\* then panics in copy_from_slice, whose two sides differ in length.
AddItemPanics(page, bytes) == AddItemOk(page, bytes) /\ BLen(bytes) # BLen(bytes) % U16

\* Page::add_item up to the copy_from_slice that panics: pd_upper and
\* pd_lower are already moved, no item id is pushed.
add_item_unwound(page, bytes) ==
    [page EXCEPT !.header.pd_upper = @ - (BLen(bytes) % U16),
                 !.header.pd_lower = (@ + ITEM_ID_SIZE) % U16]

\* (offset - 1) as usize in get_item, get_item_mut and remove_item: for
\* offset 0 the u16 subtraction panics in a build with overflow checks and
\* wraps to 65535 in one without.
OffsetIdx(offset) ==
    IF offset >= 1 THEN {[panic |-> FALSE, idx |-> offset - 1]}
    ELSE {[panic |-> TRUE, idx |-> 0], [panic |-> FALSE, idx |-> U16 - 1]}

\* The item ids as they lie in the image, from byte 24 on.
RECURSIVE ItemChunks(_)
ItemChunks(items) ==
    IF items = <<>> THEN <<>> ELSE <<ItemChunk(Head(items))>> \o ItemChunks(Tail(items))

\* Page::serialize: a zeroed buffer, the header, the item ids, and the bytes
\* of data from pd_upper to the end of the page.
PageSerialize(page) ==
    LET data_start == page.header.pd_upper
        data_end == page.page_size
        WithHeader(buf0) == BWrite(buf0, 0, <<PageHdrChunk(page.header)>>)
        WithItems(buf1) == BWrite(buf1, PAGE_HEADER_SIZE, ItemChunks(page.item_id_data))
        WithData(buf2) ==
            IF data_start < data_end
            THEN BWrite(buf2, data_start, BSlice(page.data, data_start, data_end - data_start))
            ELSE buf2
    IN  WithData(WithItems(WithHeader(Zeros(page.page_size))))

\* Page::from_raw accepts an image of at least BLCKSZ bytes whose header
\* satisfies 24 <= pd_lower <= pd_upper <= length.
FromRawOk(image) ==
    /\ BLen(image) >= BLCKSZ
    /\ LET Valid(h) ==
               /\ h.pd_lower >= PAGE_HEADER_SIZE
               /\ h.pd_upper <= BLen(image)
               /\ h.pd_lower <= h.pd_upper
       IN  Valid(PageHdrAt0(image))

\* Page::from_raw on an accepted image.
from_raw(image) ==
    LET Parsed(h) ==
            [header |-> h,
             item_id_data |-> [i \in 1..((h.pd_lower - PAGE_HEADER_SIZE) \div ITEM_ID_SIZE) |->
                                 ItemAt(image, PAGE_HEADER_SIZE + (i - 1) * ITEM_ID_SIZE)],
             data |-> image,
             page_size |-> BLen(image)]
    IN  Parsed(PageHdrAt0(image))

----------------------------------------------------------------------------
(* Block storage (storage.rs, relation.rs).  A storage is the record       *)
(* [pages, files, max_block]: the page cache, the block files of the       *)
(* directory, and the high-water mark.                                     *)

\* HashMap::insert
Put(f, k, v) == [x \in (DOMAIN f) \cup {k} |-> IF x = k THEN v ELSE f[x]]

\* Storage::new
StorageNew == [pages |-> <<>>, files |-> <<>>, max_block |-> 0]

\* Storage::page_count
page_count(st) ==
    IF st.max_block = 0 /\ 0 \notin DOMAIN st.files THEN 0 ELSE st.max_block + 1

\* Storage::read_page returns a page when the block is cached and from_raw
\* accepts the cached image; a block that is neither cached nor on disk is
\* PageNotFound.  (Every block on disk is cached here: write_page fills both.)
ReadPageOk(st, block_num) ==
    block_num \in DOMAIN st.pages /\ FromRawOk(st.pages[block_num])

read_page(st, block_num) == from_raw(st.pages[block_num])

\* Storage::write_page
write_page(st, block_num, page) ==
    LET Stored(data) ==
            [pages |-> Put(st.pages, block_num, data),
             files |-> Put(st.files, block_num, data),
             max_block |-> IF block_num > st.max_block THEN block_num ELSE st.max_block]
    IN  Stored(PageSerialize(page))

\* Storage::allocate_page: the block number it returns, and the storage after.
AllocatedBlock(st) == st.max_block + 1

allocate_page(st) == write_page(st, AllocatedBlock(st), PageNew(BLCKSZ))

\* Relation::create: a new storage with an empty page 0.
RelationCreate == write_page(StorageNew, 0, PageNew(BLCKSZ))

----------------------------------------------------------------------------
(* Transaction manager (transaction.rs).                                   *)

\* in_progress.retain(|&x| x != xid)
retain(in_progress, xid) == SelectSeq(in_progress, LAMBDA x : x # xid)

\* in_progress.contains(&xid)
contains(xs, xid) == \E i \in 1..Len(xs) : xs[i] = xid

\* in_progress.iter().min() of a non-empty vector
RECURSIVE SeqMin(_)
SeqMin(xs) == IF Len(xs) = 1 THEN xs[1] ELSE Min(Head(xs), SeqMin(Tail(xs)))

\* TransactionManager::is_committed
is_committed(table, xid) ==
    IF xid = INVALID_TRANSACTION_ID THEN FALSE
    ELSE IF xid = BOOTSTRAP_TRANSACTION_ID THEN TRUE
    ELSE IF xid \in DOMAIN table THEN table[xid] ELSE FALSE

\* TransactionManager::get_snapshot from the next xid and the in-progress list
get_snapshot(xid, in_prog, current_cid) ==
    [xmin |-> IF in_prog = <<>> THEN xid - 1 ELSE SeqMin(in_prog),
     xmax |-> xid,
     xip |-> in_prog,
     curcid |-> current_cid,
     mode |-> "MVCC"]

----------------------------------------------------------------------------
(* Visibility (visibility.rs).                                             *)

\* A faulty creation test that does not look at snapshot.xip.
satisfiesvisibility_ignoring_xip(heap_tuple, snapshot, cur_xid) ==
    \/ heap_tuple.header.t_xmin = cur_xid
    \/ /\ heap_tuple.header.t_xmin < snapshot.xmax
       /\ ~xmin_invalid(heap_tuple.header)
    \/ /\ heap_tuple.header.t_xmin < snapshot.xmax
       /\ xmin_committed(heap_tuple.header)

\* Visibility::heap_tuple_satisfiesvisibility
heap_tuple_satisfiesvisibility(heap_tuple, snapshot, cur_xid) ==
    LET xmin == heap_tuple.header.t_xmin
    IN  IF xmin = cur_xid THEN TRUE
        ELSE IF xmin >= snapshot.xmin /\ xmin < snapshot.xmax
             THEN IF xmin_committed(heap_tuple.header) THEN TRUE
                  ELSE IF xmin_invalid(heap_tuple.header) THEN FALSE
                  ELSE IF contains(snapshot.xip, xmin) THEN FALSE
                  ELSE TRUE
        ELSE IF xmin < snapshot.xmin
             THEN IF xmin_committed(heap_tuple.header) THEN TRUE
                  ELSE IF xmin_invalid(heap_tuple.header) THEN FALSE
                  ELSE TRUE
        ELSE FALSE

\* A faulty obsolescence test that takes every xmax of the current xid as a
\* lock.
satisfies_update_own_locked(heap_tuple, snapshot, cur_xid) ==
    \/ heap_tuple.header.t_xmax = INVALID_TRANSACTION_ID
    \/ heap_tuple.header.t_xmax = cur_xid
    \/ heap_tuple.header.t_xmax >= snapshot.xmax
    \/ /\ ~xmax_committed(heap_tuple.header)
       /\ xmax_invalid(heap_tuple.header)
    \/ /\ ~xmax_committed(heap_tuple.header)
       /\ heap_tuple.header.t_xmax >= snapshot.xmin
       /\ xmax_is_locked_only(heap_tuple.header)

\* Visibility::heap_txns_satisfies_update
heap_txns_satisfies_update(heap_tuple, snapshot, cur_xid) ==
    LET xmax == heap_tuple.header.t_xmax
    IN  IF xmax = INVALID_TRANSACTION_ID THEN TRUE
        ELSE IF xmax = cur_xid THEN xmax_is_locked_only(heap_tuple.header)
        ELSE IF xmax >= snapshot.xmax THEN TRUE
        ELSE IF xmax < snapshot.xmin
             THEN IF xmax_committed(heap_tuple.header) THEN FALSE
                  ELSE IF xmax_invalid(heap_tuple.header) THEN TRUE
                  ELSE FALSE
        ELSE IF xmax_committed(heap_tuple.header) THEN FALSE
        ELSE IF xmax_invalid(heap_tuple.header) THEN TRUE
        ELSE IF xmax_is_locked_only(heap_tuple.header) THEN TRUE
        ELSE FALSE

\* Visibility::heap_tuple_satisfies_mvcc
heap_tuple_satisfies_mvcc(heap_tuple, snapshot, cur_xid) ==
    /\ heap_tuple_satisfiesvisibility(heap_tuple, snapshot, cur_xid)
    /\ heap_txns_satisfies_update(heap_tuple, snapshot, cur_xid)

\* A faulty ANY test that looks at the hint bit alone.
satisfies_any_by_hint(heap_tuple) == ~xmax_committed(heap_tuple.header)

\* Visibility::heap_tuple_satisfies_any: every path returns true except a
\* committed xmax.
heap_tuple_satisfies_any(heap_tuple) ==
    ~(heap_tuple.header.t_xmax # INVALID_TRANSACTION_ID /\ xmax_committed(heap_tuple.header))

\* A faulty SELF test that also hides the tuples of the current command.
satisfies_self_before(heap_tuple, cur_xid, cur_cid) ==
    /\ ~(heap_tuple.header.t_xmin = cur_xid /\ heap_tuple.header.t_cid >= cur_cid)
    /\ IF heap_tuple.header.t_xmax = cur_xid THEN xmax_is_locked_only(heap_tuple.header)
       ELSE heap_tuple.header.t_xmax = INVALID_TRANSACTION_ID
              \/ ~xmax_committed(heap_tuple.header)

\* Visibility::heap_tuple_satisfies_self
heap_tuple_satisfies_self(heap_tuple, cur_xid, cur_cid) ==
    LET xmin == heap_tuple.header.t_xmin
        xmax == heap_tuple.header.t_xmax
    IN  IF xmin = cur_xid /\ heap_tuple.header.t_cid > cur_cid THEN FALSE
        ELSE IF xmax = cur_xid THEN xmax_is_locked_only(heap_tuple.header)
        ELSE IF xmax = INVALID_TRANSACTION_ID THEN TRUE
        ELSE IF xmax_committed(heap_tuple.header) THEN FALSE
        ELSE TRUE

\* Visibility::heap_tuple_satisfies_stable
heap_tuple_satisfies_stable(heap_tuple, snapshot) ==
    LET xmin == heap_tuple.header.t_xmin
        xmax == heap_tuple.header.t_xmax
    IN  IF xmin >= snapshot.xmin /\ xmin < snapshot.xmax
        THEN xmin_committed(heap_tuple.header)
        ELSE IF xmin < snapshot.xmin THEN xmin_committed(heap_tuple.header)
        ELSE IF xmax = INVALID_TRANSACTION_ID THEN TRUE
        ELSE IF xmax >= snapshot.xmin /\ xmax < snapshot.xmax
             THEN IF xmax_committed(heap_tuple.header) THEN FALSE
                  ELSE xmax_invalid(heap_tuple.header)
        ELSE IF xmax < snapshot.xmin
             THEN IF xmax_committed(heap_tuple.header) THEN FALSE
                  ELSE xmax_invalid(heap_tuple.header)
        ELSE TRUE

\* What the transaction table has recorded of xid: commit inserts true,
\* abort inserts false, and an xid neither has touched has no entry.
TableStatus(table, xid) ==
    IF xid \notin DOMAIN table THEN "Unknown"
    ELSE IF table[xid] THEN "Comitted" ELSE "Aborted"

\* Visibility::set_hint_bits
set_hint_bits(heap_tuple, xmin_status, xmax_status) ==
    LET Xmin(mask) ==
            IF xmin_status = "Comitted"
            THEN SetBit(SetBit(mask, HEAP_XMIN_COMMITTED, TRUE), HEAP_XMIN_INVALID, FALSE)
            ELSE IF xmin_status = "Aborted"
            THEN SetBit(SetBit(mask, HEAP_XMIN_COMMITTED, FALSE), HEAP_XMIN_INVALID, TRUE)
            ELSE mask
        Xmax(mask) ==
            IF xmax_status = "Comitted"
            THEN SetBit(SetBit(mask, HEAP_XMAX_COMMITTED, TRUE), HEAP_XMAX_INVALID, FALSE)
            ELSE IF xmax_status = "Aborted"
            THEN SetBit(SetBit(mask, HEAP_XMAX_COMMITTED, FALSE), HEAP_XMAX_INVALID, TRUE)
            ELSE mask
    IN  [heap_tuple EXCEPT !.header.t_infomask = Xmax(Xmin(@))]

\* The match on snapshot.mode in HeapRelation::scan.
Visible(heap_tuple, snapshot, cur_xid) ==
    IF snapshot.mode = "Any" THEN heap_tuple_satisfies_any(heap_tuple)
    ELSE IF snapshot.mode = "Self_"
         THEN heap_tuple_satisfies_self(heap_tuple, cur_xid, snapshot.curcid)
    ELSE IF snapshot.mode = "Stable" THEN heap_tuple_satisfies_stable(heap_tuple, snapshot)
    ELSE heap_tuple_satisfies_mvcc(heap_tuple, snapshot, cur_xid)

----------------------------------------------------------------------------
(* Heap operations (heap.rs).  Each operator takes the storage and returns *)
(* the result of the call together with the storage after it.              *)

ItemPointer(block_num, offset) == [block_number |-> block_num, offset_number |-> offset]

\* A faulty assignment that leaves t_ctid as it was.
SetCtidUnchanged(heap_tuple, block_num, offset) == heap_tuple

\* heap_tuple.header.t_ctid = ItemPointerData { block_number, offset_number }
SetCtid(heap_tuple, block_num, offset) ==
    [heap_tuple EXCEPT !.header.t_ctid = ItemPointer(block_num, offset)]

\* The first-fit loop of insert over the blocks bn .. page_count - 1.
RECURSIVE FindBlock(_, _, _)
FindBlock(st, bn, need) ==
    LET Fits(page) ==
            IF free_space(page) >= need
            THEN [err |-> FALSE, found |-> TRUE, block_num |-> bn]
            ELSE FindBlock(st, bn + 1, need)
    IN  IF bn >= page_count(st) THEN [err |-> FALSE, found |-> FALSE, block_num |-> 0]
        ELSE IF ~ReadPageOk(st, bn) THEN [err |-> TRUE, found |-> FALSE, block_num |-> 0]
        ELSE Fits(read_page(st, bn))

\* The second look at the last page when the loop found none.
LastPageFits(st, need) ==
    /\ page_count(st) > 0
    /\ ReadPageOk(st, page_count(st) - 1)
    /\ free_space(read_page(st, page_count(st) - 1)) >= need

\* HeapRelation::insert from the page it read at block_num on: the tuple is
\* added to that page and the page is written back.
InsertOnto(st, target, block_num, xid, cid, data) ==
    LET Failed == [ok |-> FALSE, st |-> st, ctid |-> InvalidItemPointer]
        t1 == SetCtid([with_data(Natts, data, FALSE) EXCEPT
                         !.header.t_xmin = xid,
                         !.header.t_xmax = INVALID_TRANSACTION_ID,
                         !.header.t_cid = cid],
                      block_num, INVALID_OFFSET_NUMBER)
        Written(page2, offset) ==
            [ok |-> TRUE, st |-> write_page(st, block_num, page2),
             ctid |-> ItemPointer(block_num, offset)]
        Patched(page1, offset) ==
            Written(IF HasItem(page1, offset)
                    THEN put_item(page1, offset, TupleSerialize(SetCtid(t1, block_num, offset)))
                    ELSE page1,
                    offset)
        Added(page, serialized) ==
            IF ~AddItemOk(page, serialized) THEN Failed
            ELSE Patched(add_item(page, serialized), AddItemOffset(page))
    IN  Added(target, TupleSerialize(t1))

\* HeapRelation::insert once the block is chosen and, if needed, allocated.
InsertInto(st, block_num, xid, cid, data) ==
    IF ~ReadPageOk(st, block_num)
    THEN [ok |-> FALSE, st |-> st, ctid |-> InvalidItemPointer]
    ELSE InsertOnto(st, read_page(st, block_num), block_num, xid, cid, data)

\* HeapRelation::insert choosing its block: the first page with room, the
\* last page, or a page it allocates; with the storage after that.
InsertTarget(st, need) ==
    LET Target(f) ==
            IF f.err THEN [err |-> TRUE, st |-> st, block_num |-> 0]
            ELSE IF f.found THEN [err |-> FALSE, st |-> st, block_num |-> f.block_num]
            ELSE IF page_count(st) > 0 /\ ~ReadPageOk(st, page_count(st) - 1)
                 THEN [err |-> TRUE, st |-> st, block_num |-> 0]
            ELSE IF LastPageFits(st, need)
                 THEN [err |-> FALSE, st |-> st, block_num |-> page_count(st) - 1]
            ELSE [err |-> FALSE, st |-> allocate_page(st), block_num |-> AllocatedBlock(st)]
    IN  Target(FindBlock(st, 0, need))

\* HeapRelation::insert
insert(st, xid, cid, data) ==
    LET Into(target) ==
            IF target.err THEN [ok |-> FALSE, st |-> st, ctid |-> InvalidItemPointer]
            ELSE InsertInto(target.st, target.block_num, xid, cid, data)
    IN  Into(InsertTarget(st, HEAP_FIXED_HEADER_SIZE + BLen(data) + ITEM_ID_SIZE))

\* HeapRelation::get: the item of a slot, deserialized.
GetOk(st, ctid) ==
    /\ ReadPageOk(st, ctid.block_number)
    /\ LET Item(page) ==
               HasItem(page, ctid.offset_number)
                 => TupleDeserializeOk(get_item(page, ctid.offset_number))
       IN  Item(read_page(st, ctid.block_number))

GetSome(st, ctid) ==
    /\ ReadPageOk(st, ctid.block_number)
    /\ LET Item(page) ==
               /\ HasItem(page, ctid.offset_number)
               /\ TupleDeserializeOk(get_item(page, ctid.offset_number))
       IN  Item(read_page(st, ctid.block_number))

get(st, ctid) ==
    TupleDeserialize(get_item(read_page(st, ctid.block_number), ctid.offset_number), Natts)

\* The target of update and delete can be read: the page, the item, the tuple.
TargetOk(st, ctid) ==
    /\ ReadPageOk(st, ctid.block_number)
    /\ LET Item(page) ==
               /\ HasItem(page, ctid.offset_number)
               /\ TupleDeserializeOk(get_item(page, ctid.offset_number))
       IN  Item(read_page(st, ctid.block_number))

\* HeapRelation::update; res is "err", "none" (Ok(None)) or "some".
update(st, xid, cid, old_ctid, new_data) ==
    LET Linked(old_page, old_tuple, ins) ==
            IF ~ins.ok
            THEN [res |-> "err", st |-> ins.st, ctid |-> InvalidItemPointer]
            ELSE [res |-> "some",
                  st |-> write_page(ins.st, old_ctid.block_number,
                                    put_item(old_page, old_ctid.offset_number,
                                             TupleSerialize([old_tuple EXCEPT
                                                 !.header.t_xmax = xid,
                                                 !.header.t_cid = cid,
                                                 !.header.t_ctid = ins.ctid]))),
                  ctid |-> ins.ctid]
        Checked(old_page, old_tuple) ==
            IF old_tuple.header.t_xmax # INVALID_TRANSACTION_ID
            THEN [res |-> "none", st |-> st, ctid |-> InvalidItemPointer]
            ELSE Linked(old_page, old_tuple, insert(st, xid, cid, new_data))
        Read(old_page) ==
            Checked(old_page,
                    TupleDeserialize(get_item(old_page, old_ctid.offset_number), Natts))
    IN  IF ~TargetOk(st, old_ctid)
        THEN [res |-> "err", st |-> st, ctid |-> InvalidItemPointer]
        ELSE Read(read_page(st, old_ctid.block_number))

\* A faulty delete that does not look at the t_xmax of its target.
delete_unchecked(st, xid, cid, ctid) ==
    LET Marked(target, heap_tuple) ==
            [res |-> "true",
             st |-> write_page(st, ctid.block_number,
                               put_item(target, ctid.offset_number,
                                        TupleSerialize([heap_tuple EXCEPT
                                            !.header.t_xmax = xid,
                                            !.header.t_cid = cid])))]
        Read(target) ==
            Marked(target, TupleDeserialize(get_item(target, ctid.offset_number), Natts))
    IN  IF ~TargetOk(st, ctid) THEN [res |-> "err", st |-> st]
        ELSE Read(read_page(st, ctid.block_number))

\* HeapRelation::delete; res is "err", "false" or "true".
delete(st, xid, cid, ctid) ==
    LET Checked(page, heap_tuple) ==
            IF heap_tuple.header.t_xmax # INVALID_TRANSACTION_ID
            THEN [res |-> "false", st |-> st]
            ELSE [res |-> "true",
                  st |-> write_page(st, ctid.block_number,
                                    put_item(page, ctid.offset_number,
                                             TupleSerialize([heap_tuple EXCEPT
                                                 !.header.t_xmax = xid,
                                                 !.header.t_cid = cid])))]
        Read(page) ==
            Checked(page, TupleDeserialize(get_item(page, ctid.offset_number), Natts))
    IN  IF ~TargetOk(st, ctid) THEN [res |-> "err", st |-> st]
        ELSE Read(read_page(st, ctid.block_number))

\* The inner loop of scan over the slots offset .. item_count of one page.
RECURSIVE ScanPage(_, _, _, _, _)
ScanPage(page, block_num, offset, snapshot, cur_xid) ==
    IF offset > item_count(page) THEN <<>>
    ELSE LET rest == ScanPage(page, block_num, offset + 1, snapshot, cur_xid)
             Filtered(heap_tuple) ==
                 IF Visible(heap_tuple, snapshot, cur_xid)
                 THEN <<[ctid |-> ItemPointer(block_num, offset),
                         tuple |-> heap_tuple]>> \o rest
                 ELSE rest
             Decoded(tuple_data) ==
                 IF ~TupleDeserializeOk(tuple_data) THEN rest
                 ELSE Filtered(TupleDeserialize(tuple_data, Natts))
         IN  IF ~HasItem(page, offset) THEN rest
             ELSE Decoded(get_item(page, offset))

\* HeapRelation::scan fails when a page cannot be read.
ScanOk(st) == \A bn \in 0..(page_count(st) - 1) : ReadPageOk(st, bn)

RECURSIVE ScanBlocks(_, _, _, _)
ScanBlocks(st, block_num, snapshot, cur_xid) ==
    IF block_num >= page_count(st) THEN <<>>
    ELSE ScanPage(read_page(st, block_num), block_num, 1, snapshot, cur_xid)
           \o ScanBlocks(st, block_num + 1, snapshot, cur_xid)

\* HeapRelation::scan
scan(st, snapshot, cur_xid) == ScanBlocks(st, 0, snapshot, cur_xid)

\* The inner loop of vacuum over the slots offset .. item_count of one page:
\* the page after it and the slots it removed, each with the t_xmax it read.
RECURSIVE VacuumPage(_, _, _)
VacuumPage(page, block_num, offset) ==
    IF offset > item_count(page) THEN [page |-> page, removed |-> <<>>]
    ELSE LET Collected(xmax, r) ==
                 [page |-> r.page,
                  removed |-> (IF xmax # INVALID_TRANSACTION_ID
                               THEN <<[ctid |-> ItemPointer(block_num, offset),
                                       xmax |-> xmax]>>
                               ELSE <<>>) \o r.removed]
             Seen(xmax) ==
                 Collected(xmax,
                           VacuumPage(IF xmax # INVALID_TRANSACTION_ID
                                      THEN remove_item(page, offset) ELSE page,
                                      block_num, offset + 1))
             Xmax(tuple_data) ==
                 IF TupleDeserializeOk(tuple_data)
                 THEN TupleDeserialize(tuple_data, Natts).header.t_xmax
                 ELSE INVALID_TRANSACTION_ID
         IN  Seen(IF HasItem(page, offset) THEN Xmax(get_item(page, offset))
                  ELSE INVALID_TRANSACTION_ID)

\* The outer loop of vacuum over the blocks block_num .. count - 1, with the
\* slots removed so far; a page is written back once removed_count > 0.
RECURSIVE VacuumBlocks(_, _, _, _)
VacuumBlocks(st, block_num, count, removed) ==
    LET Written(page, all) ==
            VacuumBlocks(IF Len(all) > 0 THEN write_page(st, block_num, page) ELSE st,
                         block_num + 1, count, all)
        Cleaned(r) == Written(r.page, removed \o r.removed)
    IN  IF block_num >= count THEN [ok |-> TRUE, st |-> st, removed |-> removed]
        ELSE IF ~ReadPageOk(st, block_num) THEN [ok |-> FALSE, st |-> st, removed |-> removed]
        ELSE Cleaned(VacuumPage(read_page(st, block_num), block_num, 1))

\* HeapRelation::vacuum
vacuum(st) == VacuumBlocks(st, 0, page_count(st), <<>>)

----------------------------------------------------------------------------
(* The state: one TransactionManager, one HeapRelation over one Storage,   *)
(* and the clients calling them.                                           *)

VARIABLES
    current_xid,   \* TransactionManager.current_xid: the next xid to assign
    next_cid,      \* TransactionManager.next_cid
    committed,     \* TransactionManager.committed: xid -> bool
    in_progress,   \* TransactionManager.in_progress: a vector of xids
    pages,         \* Storage.pages: the cache, block -> image
    files,         \* the block files <n>.dat of Storage.dir, block -> image
    max_block,     \* Storage.max_block
    snaps,         \* the snapshot each running transaction holds, if any, with
                   \* the running xids and the commit table at its capture
    tuples,        \* what the clients were told: for each ctid an insert or
                   \* update returned, who inserted what, and who deleted it
    last,          \* the last call, its arguments and its result
    page,          \* a Page in memory, exercised on its own
    items,         \* for each offset number add_item returned on page: the
                   \* bytes that were stored there
    made,          \* a HeapTuple in memory with the attribute count it was
                   \* made with, exercised on its own
    threads,       \* for each thread inside the transaction manager or the
                   \* storage: where it stands in its call, and the locals
                   \* it holds
    given,         \* the block numbers allocate_page has returned, in order
    current_tx,    \* HeapEngine.current_tx: the engine's Option<Transaction>
    handles        \* the Transaction values HeapEngine::begin returned and
                   \* the callers still hold

vars == <<current_xid, next_cid, committed, in_progress, pages, files, max_block,
          snaps, tuples, last, page, items, made, threads, given,
          current_tx, handles>>

\* The units exercised on their own; the heap operations leave them alone.
engine_vars == <<current_tx, handles>>

unit_vars == <<page, items, made, threads, given, engine_vars>>

Threads == 1..NThreads

\* A thread outside every call of the transaction manager.
Idle == [pc |-> "idle", xid |-> INVALID_TRANSACTION_ID]

tm_vars == <<current_xid, next_cid, committed, in_progress>>

storage_vars == <<pages, files, max_block>>

Storage == [pages |-> pages, files |-> files, max_block |-> max_block]

SetStorage(st) ==
    /\ pages' = st.pages
    /\ files' = st.files
    /\ max_block' = st.max_block

\* The xids begin() has returned so far.
Allocated == FIRST_NORMAL_TRANSACTION_ID..(current_xid - 1)

Running == {in_progress[i] : i \in 1..Len(in_progress)}

\* The item ids of all pages together.
RECURSIVE TotalItems(_, _)
TotalItems(st, bn) ==
    IF bn >= page_count(st) THEN 0
    ELSE item_count(read_page(st, bn)) + TotalItems(st, bn + 1)

\* The item pointers the clients pass: every slot of every page, and the one
\* past the last slot of each page.
CtidArgs(st) ==
    UNION {{ItemPointer(bn, o) : o \in 1..(item_count(read_page(st, bn)) + 1)} :
             bn \in 0..(page_count(st) - 1)}

Payload(len, b) == <<Run(len, b)>>

Payloads == {Payload(len, b) : len \in {ShortLen, LongLen}, b \in 1..MaxByte}

Drop(f, keys) == [x \in (DOMAIN f) \ keys |-> f[x]]

\* HeapEngine.current_tx = None, and Some(Transaction { xid, cid, .. }).
NoTx == [some |-> FALSE, xid |-> INVALID_TRANSACTION_ID, cid |-> 0]

SomeTx(xid, cid) == [some |-> TRUE, xid |-> xid, cid |-> cid]

\* TransactionManager::new, HeapRelation::create and Page::new; no thread is
\* inside a call.
Created ==
    /\ current_xid = FIRST_NORMAL_TRANSACTION_ID
    /\ next_cid = FIRST_COMMAND_ID
    /\ committed = <<>>
    /\ in_progress = <<>>
    /\ LET Stored(st) ==
               /\ pages = st.pages
               /\ files = st.files
               /\ max_block = st.max_block
       IN  Stored(RelationCreate)
    /\ snaps = <<>>
    /\ tuples = <<>>
    /\ last = [op |-> "create"]
    /\ page = PageNew(BLCKSZ)
    /\ items = <<>>
    /\ threads = [t \in Threads |-> Idle]
    /\ given = <<>>
    /\ current_tx = NoTx
    /\ handles = {}

\* The state after construction, with HeapTuple::default().
Init ==
    /\ Created
    /\ made = [tuple |-> with_data(0, <<>>, FALSE), natts |-> 0]

\* TransactionManager::begin
Begin ==
    /\ current_xid < MaxXid
    /\ current_xid' = current_xid + 1
    /\ in_progress' = Append(in_progress, current_xid)
    /\ last' = [op |-> "begin", xid |-> current_xid]
    /\ UNCHANGED <<next_cid, committed, storage_vars, snaps, tuples>>
    /\ UNCHANGED unit_vars

\* TransactionManager::commit; the client drops the transaction's snapshot.
Commit(xid) ==
    /\ committed' = Put(committed, xid, TRUE)
    /\ in_progress' = retain(in_progress, xid)
    /\ snaps' = Drop(snaps, {xid})
    /\ last' = [op |-> "commit", xid |-> xid]
    /\ UNCHANGED <<current_xid, next_cid, storage_vars, tuples>>
    /\ UNCHANGED unit_vars

\* TransactionManager::abort; the client drops the transaction's snapshot.
Abort(xid) ==
    /\ committed' = Put(committed, xid, FALSE)
    /\ in_progress' = retain(in_progress, xid)
    /\ snaps' = Drop(snaps, {xid})
    /\ last' = [op |-> "abort", xid |-> xid]
    /\ UNCHANGED <<current_xid, next_cid, storage_vars, tuples>>
    /\ UNCHANGED unit_vars

\* TransactionManager::get_cid
GetCid ==
    /\ next_cid <= MaxCid
    /\ next_cid' = next_cid + 1
    /\ last' = [op |-> "get_cid", cid |-> next_cid]
    /\ UNCHANGED <<current_xid, committed, in_progress, storage_vars, snaps, tuples>>
    /\ UNCHANGED unit_vars

\* TransactionManager::get_snapshot, called for the running transaction xid.
GetSnapshot(xid, cid) ==
    /\ snaps' = Put(snaps, xid, [snapshot |-> get_snapshot(current_xid, in_progress, cid),
                                 running |-> Running,
                                 table |-> committed])
    /\ last' = [op |-> "get_snapshot", xid |-> xid]
    /\ UNCHANGED <<tm_vars, storage_vars, tuples>>
    /\ UNCHANGED unit_vars

\* HeapRelation::insert
Insert(xid, cid, data) ==
    /\ TotalItems(Storage, 0) < MaxItems
    /\ LET Done(r) ==
               /\ SetStorage(r.st)
               /\ tuples' = IF r.ok
                            THEN Put(tuples, r.ctid, [xmin |-> xid, data |-> data,
                                                      xmax |-> INVALID_TRANSACTION_ID,
                                                      by |-> "nobody"])
                            ELSE tuples
               /\ last' = [op |-> "insert", xid |-> xid, cid |-> cid, data |-> data,
                           ok |-> r.ok, ctid |-> r.ctid, fresh |-> (Storage = RelationCreate)]
       IN  Done(insert(Storage, xid, cid, data))
    /\ UNCHANGED <<tm_vars, snaps>>
    /\ UNCHANGED unit_vars

\* HeapRelation::update
Update(xid, cid, old_ctid, data) ==
    /\ TotalItems(Storage, 0) < MaxItems
    /\ LET t1 == IF old_ctid \in DOMAIN tuples
                 THEN [tuples EXCEPT ![old_ctid].xmax = xid, ![old_ctid].by = "update"]
                 ELSE tuples
           Done(r) ==
               /\ SetStorage(r.st)
               /\ tuples' = IF r.res = "some"
                            THEN Put(t1, r.ctid, [xmin |-> xid, data |-> data,
                                                  xmax |-> INVALID_TRANSACTION_ID,
                                                  by |-> "nobody"])
                            ELSE tuples
               /\ last' = IF r.res = "some"
                          THEN [op |-> "update", res |-> r.res, xid |-> xid, cid |-> cid,
                                old_ctid |-> old_ctid, data |-> data, ctid |-> r.ctid]
                          ELSE [op |-> "update", res |-> r.res, old_ctid |-> old_ctid,
                                changed |-> (r.st # Storage)]
       IN  Done(update(Storage, xid, cid, old_ctid, data))
    /\ UNCHANGED <<tm_vars, snaps>>
    /\ UNCHANGED unit_vars

\* The clients were told that a delete of ctid succeeded.
Deleted(tt, ctid) == ctid \in DOMAIN tt /\ tt[ctid].by = "delete"

\* HeapRelation::delete
Delete(xid, cid, ctid) ==
    /\ LET Done(r) ==
               /\ SetStorage(r.st)
               /\ tuples' = IF r.res = "true" /\ ctid \in DOMAIN tuples
                               /\ tuples[ctid].xmax = INVALID_TRANSACTION_ID
                            THEN [tuples EXCEPT ![ctid].xmax = xid, ![ctid].by = "delete"]
                            ELSE tuples
               /\ last' = IF r.res = "true"
                          THEN [op |-> "delete", res |-> r.res, xid |-> xid, cid |-> cid,
                                ctid |-> ctid, again |-> Deleted(tuples, ctid)]
                          ELSE [op |-> "delete", res |-> r.res, ctid |-> ctid,
                                again |-> Deleted(tuples, ctid),
                                changed |-> (r.st # Storage)]
       IN  Done(delete(Storage, xid, cid, ctid))
    /\ UNCHANGED <<tm_vars, snaps>>
    /\ UNCHANGED unit_vars

\* HeapRelation::get
Get(ctid) ==
    /\ last' = [op |-> "get", ctid |-> ctid, ok |-> GetOk(Storage, ctid),
                some |-> GetSome(Storage, ctid)]
    /\ UNCHANGED <<tm_vars, storage_vars, snaps, tuples>>
    /\ UNCHANGED unit_vars

\* HeapRelation::scan by the running transaction xid under the snapshot it holds.
Scan(xid) ==
    /\ xid \in DOMAIN snaps
    /\ last' = [op |-> "scan", xid |-> xid, snap |-> snaps[xid],
                ok |-> ScanOk(Storage),
                result |-> IF ScanOk(Storage) THEN scan(Storage, snaps[xid].snapshot, xid)
                           ELSE <<>>]
    /\ UNCHANGED <<tm_vars, storage_vars, snaps, tuples>>
    /\ UNCHANGED unit_vars

\* The tuples the clients deleted (the call returned true or Some) and vacuum
\* has not taken yet.
Pending(tt) == {c \in DOMAIN tt : tt[c].xmax # INVALID_TRANSACTION_ID}

\* HeapRelation::vacuum
Vacuum ==
    /\ LET Done(r) ==
               /\ SetStorage(r.st)
               /\ tuples' = Drop(tuples, {r.removed[i].ctid : i \in 1..Len(r.removed)})
               /\ last' = [op |-> "vacuum", ok |-> r.ok, count |-> Len(r.removed),
                           removed |-> r.removed,
                           pending |-> {[ctid |-> c, xmin |-> tuples[c].xmin,
                                         xmax |-> tuples[c].xmax, by |-> tuples[c].by] :
                                          c \in Pending(tuples)},
                           free_before |-> [bn \in 0..(page_count(Storage) - 1) |->
                                              free_space(read_page(Storage, bn))]]
       IN  Done(vacuum(Storage))
    /\ UNCHANGED <<tm_vars, snaps>>
    /\ UNCHANGED unit_vars

\* The xids a caller of the transaction manager may pass to commit and abort:
\* TransactionId is a public wrapper of any u32, begun or not.
XidArgs == INVALID_TRANSACTION_ID..(MaxXid - 1)

\* The transaction manager on its own, called with any xid.
NextTM ==
    \/ Begin
    \/ \E xid \in XidArgs : Commit(xid)
    \/ \E xid \in XidArgs : Abort(xid)
    \/ GetCid
    \/ \E xid \in Running, cid \in 1..MaxCid : GetSnapshot(xid, cid)

SpecTM == Init /\ [][NextTM]_vars

----------------------------------------------------------------------------
(* The transaction manager called by several threads.  Each action is the  *)
(* part of a call that runs under one lock; between two of them the other  *)
(* threads run.  threads[t].xid is the local the thread holds: the xid     *)
(* begin took, the xid of the transaction the thread runs, or the          *)
(* current_xid get_snapshot read.                                          *)

\* What the thread-level calls leave alone.
conc_frame == <<next_cid, storage_vars, snaps, tuples, page, items, made, given,
                engine_vars>>

At(t, pc, xid) == [threads EXCEPT ![t] = [pc |-> pc, xid |-> xid]]

\* A faulty begin that gives up the write guard of current_xid before it
\* pushes the xid.
XidLockReleasedEarly == TRUE

\* The write guard of current_xid is held from the first line of begin to
\* its return.
XidLockFree == \A t \in Threads : threads[t].pc # "begin_push"

\* TransactionManager::begin, under the write lock of current_xid
BeginXid(t) ==
    /\ threads[t].pc = "idle"
    /\ XidLockFree
    /\ current_xid < MaxXid
    /\ current_xid' = current_xid + 1
    /\ threads' = At(t, "begin_push", current_xid)
    /\ last' = [op |-> "begin_xid", thread |-> t]
    /\ UNCHANGED <<committed, in_progress, conc_frame>>

\* TransactionManager::begin, under the write lock of in_progress as well
BeginPush(t) ==
    /\ threads[t].pc = "begin_push"
    /\ in_progress' = Append(in_progress, threads[t].xid)
    /\ threads' = At(t, "running", threads[t].xid)
    /\ last' = [op |-> "begin", thread |-> t, xid |-> threads[t].xid]
    /\ UNCHANGED <<current_xid, committed, conc_frame>>

\* TransactionManager::commit, the block under the write lock of committed;
\* the thread commits the transaction it runs.
CommitInsert(t) ==
    /\ threads[t].pc = "running"
    /\ committed' = Put(committed, threads[t].xid, TRUE)
    /\ threads' = At(t, "commit_retain", threads[t].xid)
    /\ last' = [op |-> "commit_insert", thread |-> t, xid |-> threads[t].xid]
    /\ UNCHANGED <<current_xid, in_progress, conc_frame>>

\* TransactionManager::commit, the block under the write lock of in_progress
CommitRetain(t) ==
    /\ threads[t].pc = "commit_retain"
    /\ in_progress' = retain(in_progress, threads[t].xid)
    /\ threads' = At(t, "idle", INVALID_TRANSACTION_ID)
    /\ last' = [op |-> "commit", thread |-> t, xid |-> threads[t].xid]
    /\ UNCHANGED <<current_xid, committed, conc_frame>>

\* TransactionManager::abort, the block under the write lock of committed
AbortInsert(t) ==
    /\ threads[t].pc = "running"
    /\ committed' = Put(committed, threads[t].xid, FALSE)
    /\ threads' = At(t, "abort_retain", threads[t].xid)
    /\ last' = [op |-> "abort_insert", thread |-> t, xid |-> threads[t].xid]
    /\ UNCHANGED <<current_xid, in_progress, conc_frame>>

\* TransactionManager::abort, the block under the write lock of in_progress
AbortRetain(t) ==
    /\ threads[t].pc = "abort_retain"
    /\ in_progress' = retain(in_progress, threads[t].xid)
    /\ threads' = At(t, "idle", INVALID_TRANSACTION_ID)
    /\ last' = [op |-> "abort", thread |-> t, xid |-> threads[t].xid]
    /\ UNCHANGED <<current_xid, committed, conc_frame>>

\* TransactionManager::get_snapshot, the read of current_xid; the read
\* guard is dropped at the end of the statement.
SnapshotXid(t) ==
    /\ threads[t].pc = "idle"
    /\ XidLockFree
    /\ threads' = At(t, "snapshot", current_xid)
    /\ last' = [op |-> "snapshot_xid", thread |-> t]
    /\ UNCHANGED <<current_xid, committed, in_progress, conc_frame>>

\* TransactionManager::get_snapshot, under the read lock of in_progress
SnapshotInProgress(t, cid) ==
    /\ threads[t].pc = "snapshot"
    /\ threads' = At(t, "idle", INVALID_TRANSACTION_ID)
    /\ last' = [op |-> "get_snapshot", thread |-> t, cid |-> cid,
                snapshot |-> get_snapshot(threads[t].xid, in_progress, cid)]
    /\ UNCHANGED <<current_xid, committed, in_progress, conc_frame>>

\* TransactionManager::is_committed by a thread outside every call, with
\* what in_progress holds at that moment.
IsCommitted(t, xid) ==
    /\ threads[t].pc = "idle"
    /\ last' = [op |-> "is_committed", thread |-> t, xid |-> xid,
                res |-> is_committed(committed, xid),
                in_progress |-> in_progress]
    /\ UNCHANGED <<current_xid, committed, in_progress, threads, conc_frame>>

\* TransactionManager::is_in_progress by a thread outside every call
IsInProgress(t, xid) ==
    /\ threads[t].pc = "idle"
    /\ last' = [op |-> "is_in_progress", thread |-> t, xid |-> xid,
                res |-> contains(in_progress, xid)]
    /\ UNCHANGED <<current_xid, committed, in_progress, threads, conc_frame>>

NextConc ==
    \/ \E t \in Threads : BeginXid(t)
    \/ \E t \in Threads : BeginPush(t)
    \/ \E t \in Threads : CommitInsert(t)
    \/ \E t \in Threads : CommitRetain(t)
    \/ \E t \in Threads : AbortInsert(t)
    \/ \E t \in Threads : AbortRetain(t)
    \/ \E t \in Threads : SnapshotXid(t)
    \/ \E t \in Threads, cid \in 1..MaxCid : SnapshotInProgress(t, cid)
    \/ \E t \in Threads, xid \in Allocated : IsCommitted(t, xid)
    \/ \E t \in Threads, xid \in Allocated : IsInProgress(t, xid)

SpecConc == Init /\ [][NextConc]_vars

----------------------------------------------------------------------------
(* A page on its own: Page::new followed by add_item, remove_item, get_item,*)
(* writes through get_item_mut, and serialize with from_raw.  A call that   *)
(* panics ends the use of the page.                                         *)

\* What the page-level calls leave alone.
page_frame == <<tm_vars, storage_vars, snaps, tuples, made, threads, given,
                engine_vars>>

Bodies == {Payload(len, b) : len \in {ShortLen, LongLen, HugeLen}, b \in 1..MaxFill}

Panicked == last.op # "create" /\ last.res = "panic"

\* Page::add_item
AddItem(bytes) ==
    /\ ~Panicked
    /\ item_count(page) < MaxSlots
    /\ page' = IF ~AddItemOk(page, bytes) THEN page
               ELSE IF AddItemPanics(page, bytes) THEN add_item_unwound(page, bytes)
               ELSE add_item(page, bytes)
    /\ items' = IF AddItemOk(page, bytes) /\ ~AddItemPanics(page, bytes)
                THEN Put(items, AddItemOffset(page), bytes)
                ELSE items
    /\ last' = [op |-> "add_item", bytes |-> bytes, before |-> page,
                res |-> IF ~AddItemOk(page, bytes) THEN "no_free_space"
                        ELSE IF AddItemPanics(page, bytes) THEN "panic"
                        ELSE "ok",
                offset |-> AddItemOffset(page)]
    /\ UNCHANGED page_frame

\* Page::remove_item
RemoveItem(offset) ==
    /\ ~Panicked
    /\ \E i \in OffsetIdx(offset) :
         LET ok == ~i.panic /\ i.idx < item_count(page)
         IN  /\ page' = IF ok THEN remove_item(page, offset) ELSE page
             /\ items' = IF ok THEN Drop(items, {offset}) ELSE items
             /\ last' = [op |-> "remove_item", offset |-> offset, before |-> page,
                         res |-> IF i.panic THEN "panic" ELSE IF ok THEN "ok" ELSE "err"]
    /\ UNCHANGED page_frame

\* Page::get_item
GetItem(offset) ==
    /\ ~Panicked
    /\ \E i \in OffsetIdx(offset) :
         LET some == ~i.panic /\ HasItem(page, offset)
         IN  last' = [op |-> "get_item", offset |-> offset, before |-> page,
                      res |-> IF i.panic THEN "panic" ELSE IF some THEN "some" ELSE "none",
                      bytes |-> IF some THEN get_item(page, offset) ELSE <<>>]
    /\ UNCHANGED <<page, items, page_frame>>

\* Page::get_item_mut, and when it returns a span, a write of as many bytes
\* of value b over it.
PutItem(offset, b) ==
    /\ ~Panicked
    /\ \E i \in OffsetIdx(offset) :
         LET some == ~i.panic /\ HasItem(page, offset)
             Filled(span) == <<Run(BLen(span), b)>>
         IN  /\ page' = IF some THEN put_item(page, offset, Filled(get_item(page, offset)))
                        ELSE page
             /\ items' = IF some THEN Put(items, offset, Filled(get_item(page, offset)))
                         ELSE items
             /\ last' = [op |-> "get_item_mut", offset |-> offset, before |-> page,
                         res |-> IF i.panic THEN "panic" ELSE IF some THEN "some" ELSE "none",
                         bytes |-> IF some THEN get_item(page, offset) ELSE <<>>]
    /\ UNCHANGED page_frame

\* Page::serialize followed by Page::from_raw
RoundTrip ==
    /\ ~Panicked
    /\ LET Restored(image) ==
               last' = [op |-> "round_trip", before |-> page,
                        res |-> IF FromRawOk(image) THEN "ok" ELSE "err",
                        restored |-> IF FromRawOk(image) THEN from_raw(image) ELSE page]
       IN  Restored(PageSerialize(page))
    /\ UNCHANGED <<page, items, page_frame>>

\* Page::from_raw of the page's image with pd_lower, pd_upper and pd_special
\* overwritten in its first 24 bytes.
FromRaw(lower, upper, special) ==
    /\ ~Panicked
    /\ LET Judged(image) ==
               last' = [op |-> "from_raw", before |-> page, len |-> BLen(image),
                        lower |-> lower, upper |-> upper, special |-> special,
                        res |-> IF FromRawOk(image) THEN "ok" ELSE "err"]
           Image(buf) ==
               BWrite(buf, 0, <<PageHdrChunk([page.header EXCEPT !.pd_lower = lower,
                                                                  !.pd_upper = upper,
                                                                  !.pd_special = special])>>)
       IN  Judged(Image(PageSerialize(page)))
    /\ UNCHANGED <<page, items, page_frame>>

NextPage ==
    \/ \E bytes \in Bodies : AddItem(bytes)
    \/ \E offset \in 0..(item_count(page) + 1) : RemoveItem(offset)
    \/ \E offset \in 0..(item_count(page) + 1) : GetItem(offset)
    \/ \E offset \in 0..(item_count(page) + 1), b \in 1..MaxFill : PutItem(offset, b)
    \/ RoundTrip
    \/ \E lower \in {PAGE_HEADER_SIZE - ITEM_ID_SIZE, page.header.pd_lower,
                     page.header.pd_upper + ITEM_ID_SIZE},
          upper \in {page.header.pd_upper, BLCKSZ + ITEM_ID_SIZE},
          special \in {BLCKSZ, BLCKSZ - ITEM_ID_SIZE} :
          FromRaw(lower, upper, special)

SpecPage == Init /\ [][NextPage]_vars

----------------------------------------------------------------------------
(* A tuple on its own: HeapTuple::with_data, the setters, and serialize     *)
(* with deserialize.                                                        *)

\* What the tuple-level calls leave alone.
tuple_frame == <<tm_vars, storage_vars, snaps, tuples, page, items, threads, given,
                 engine_vars>>

TupleData == {<<>>} \cup Bodies

\* HeapTuple::with_data of every attribute count, payload and has_null
InitTuple ==
    /\ Created
    /\ \E natts \in {0, Natts, WideNatts}, data \in TupleData, hasnull \in BOOLEAN :
         made = [tuple |-> with_data(natts, data, hasnull), natts |-> natts]

\* HeapTuple::set_xmin
SetXmin(xid) ==
    /\ made' = [made EXCEPT !.tuple.header.t_xmin = xid]
    /\ last' = [op |-> "set"]
    /\ UNCHANGED tuple_frame

\* HeapTuple::set_xmax
SetXmax(xid) ==
    /\ made' = [made EXCEPT !.tuple.header.t_xmax = xid]
    /\ last' = [op |-> "set"]
    /\ UNCHANGED tuple_frame

\* HeapTuple::set_ctid
SetCtidTo(ctid) ==
    /\ made' = [made EXCEPT !.tuple = SetCtid(@, ctid.block_number, ctid.offset_number)]
    /\ last' = [op |-> "set"]
    /\ UNCHANGED tuple_frame

\* HeapTupleHeaderData::set_xmin_committed
SetXminCommitted(on) ==
    /\ made' = [made EXCEPT !.tuple.header.t_infomask = SetBit(@, HEAP_XMIN_COMMITTED, on)]
    /\ last' = [op |-> "set"]
    /\ UNCHANGED tuple_frame

\* HeapTuple::set_null
SetNull(attnum) ==
    /\ made' = [made EXCEPT !.tuple = set_null(@, attnum)]
    /\ last' = [op |-> "set"]
    /\ UNCHANGED tuple_frame

\* HeapTuple::serialize, then HeapTuple::deserialize of the bytes with the
\* attribute count the tuple was made with.
TupleRoundTrip ==
    /\ LET Decoded(buf) ==
               last' = [op |-> "tuple_round_trip", len |-> BLen(buf),
                        ok |-> TupleSerializeOk(made.tuple) /\ TupleDeserializeOk(buf),
                        back |-> TupleDeserialize(buf, made.natts)]
       IN  Decoded(Flat(TupleSerialize(made.tuple)))
    /\ UNCHANGED <<made, tuple_frame>>

NextTuple ==
    \/ \E xid \in XidArgs : SetXmin(xid)
    \/ \E xid \in XidArgs : SetXmax(xid)
    \/ \E ctid \in {InvalidItemPointer, ItemPointer(1, 2)} : SetCtidTo(ctid)
    \/ \E on \in BOOLEAN : SetXminCommitted(on)
    \/ \E attnum \in {1, made.natts} \ {0} : SetNull(attnum)
    \/ TupleRoundTrip

SpecTuple == InitTuple /\ [][NextTuple]_vars

----------------------------------------------------------------------------
(* The storage called by several threads.  Each action is the part of a     *)
(* call that runs between two lock acquisitions.  read_page keeps the read  *)
(* guard of Storage.pages from its first line to its return; write_page     *)
(* takes the write guard after the file is written; the reads of max_block  *)
(* in allocate_page are guards dropped at the end of the statement.         *)

\* What the storage-level calls leave alone.
store_frame == <<tm_vars, snaps, tuples, page, items, made, engine_vars>>

\* Thread t stands at pc inside a storage call, with its locals.
In(t, pc, block_num, data, alloc) ==
    [threads EXCEPT ![t] = [pc |-> pc, block_num |-> block_num, data |-> data,
                            alloc |-> alloc]]

\* No thread other than t holds the read guard of Storage.pages.
PagesUnread(t) ==
    \A u \in Threads \ {t} : threads[u].pc \notin {"read_file", "read_blocked"}

\* The blocks a caller writes: block 0 and the blocks allocate_page returned.
Given == {0} \cup {given[i] : i \in 1..Len(given)}

\* A page a caller of write_page has put a tuple body on.
Filled == add_item(PageNew(BLCKSZ), Payload(ShortLen, 1))

\* Storage::read_page up to the cache lookup: a cached image is returned
\* through Page::from_raw, otherwise the call goes on holding the read guard.
ReadLookup(t, block_num) ==
    /\ threads[t].pc = "idle"
    /\ IF block_num \in DOMAIN pages
       THEN /\ last' = [op |-> "read_page", thread |-> t, block_num |-> block_num,
                        res |-> IF FromRawOk(pages[block_num]) THEN "ok" ELSE "err",
                        data |-> pages[block_num]]
            /\ UNCHANGED threads
       ELSE /\ last' = [op |-> "read_lookup", thread |-> t, block_num |-> block_num]
            /\ threads' = In(t, "read_file", block_num, <<>>, FALSE)
    /\ UNCHANGED <<storage_vars, given, store_frame>>

\* Storage::read_page after a cache miss: PageNotFound when the block file is
\* missing; otherwise the file is read and the thread asks for the write
\* guard of Storage.pages while it holds the read guard, which blocks it for
\* ever or panics, as the lock implementation has it.
ReadFile(t, outcome) ==
    /\ threads[t].pc = "read_file"
    /\ IF threads[t].block_num \notin DOMAIN files
       THEN /\ last' = [op |-> "read_page", thread |-> t,
                        block_num |-> threads[t].block_num,
                        res |-> "not_found", data |-> <<>>]
            /\ threads' = [threads EXCEPT ![t] = Idle]
       ELSE /\ last' = [op |-> "read_file", thread |-> t,
                        block_num |-> threads[t].block_num]
            /\ threads' = In(t, outcome, threads[t].block_num,
                             files[threads[t].block_num], FALSE)
    /\ UNCHANGED <<storage_vars, given, store_frame>>

\* Storage::write_page up to the write of the block file
WritePage(t, block_num, written) ==
    /\ threads[t].pc = "idle"
    /\ files' = Put(files, block_num, PageSerialize(written))
    /\ threads' = In(t, "write_cache", block_num, PageSerialize(written), FALSE)
    /\ last' = [op |-> "write_file", thread |-> t, block_num |-> block_num]
    /\ UNCHANGED <<pages, max_block, given, store_frame>>

\* Storage::allocate_page: the read of max_block and Page::new
AllocRead(t) ==
    /\ threads[t].pc = "idle"
    /\ max_block < MaxBlock
    /\ threads' = In(t, "alloc_file", max_block + 1, PageSerialize(PageNew(BLCKSZ)), TRUE)
    /\ last' = [op |-> "alloc_read", thread |-> t, block_num |-> max_block + 1]
    /\ UNCHANGED <<storage_vars, given, store_frame>>

\* Storage::write_page called by allocate_page, up to the write of the file
AllocFile(t) ==
    /\ threads[t].pc = "alloc_file"
    /\ files' = Put(files, threads[t].block_num, threads[t].data)
    /\ threads' = In(t, "write_cache", threads[t].block_num, threads[t].data, TRUE)
    /\ last' = [op |-> "write_file", thread |-> t, block_num |-> threads[t].block_num]
    /\ UNCHANGED <<pages, max_block, given, store_frame>>

\* Storage::write_page under the write guard of Storage.pages: the cache
\* entry and the high-water mark; taken tells that allocate_page stores its
\* empty page on a block an earlier call has returned.
WriteCache(t) ==
    /\ threads[t].pc = "write_cache"
    /\ PagesUnread(t)
    /\ pages' = Put(pages, threads[t].block_num, threads[t].data)
    /\ max_block' = IF threads[t].block_num > max_block THEN threads[t].block_num
                    ELSE max_block
    /\ threads' = IF threads[t].alloc
                  THEN In(t, "alloc_mark", threads[t].block_num, threads[t].data, TRUE)
                  ELSE [threads EXCEPT ![t] = Idle]
    /\ last' = [op |-> "write_page", thread |-> t, block_num |-> threads[t].block_num,
                taken |-> threads[t].alloc /\ threads[t].block_num \in Given \ {0}]
    /\ UNCHANGED <<files, given, store_frame>>

\* Storage::allocate_page after write_page: the high-water mark and the
\* return of the block number.
AllocMark(t) ==
    /\ threads[t].pc = "alloc_mark"
    /\ max_block' = IF threads[t].block_num > max_block THEN threads[t].block_num
                    ELSE max_block
    /\ given' = Append(given, threads[t].block_num)
    /\ threads' = [threads EXCEPT ![t] = Idle]
    /\ last' = [op |-> "allocate_page", thread |-> t, res |-> threads[t].block_num,
                dup |-> threads[t].block_num \in Given \ {0}]
    /\ UNCHANGED <<pages, files, store_frame>>

\* Relation::create over the directory the relation was created in before:
\* Storage::new starts with an empty cache and leaves the block files, then
\* write_page stores an empty page 0.  No thread is inside a call.
Recreate ==
    /\ \A t \in Threads : threads[t].pc = "idle"
    /\ SetStorage(write_page([StorageNew EXCEPT !.files = files], 0, PageNew(BLCKSZ)))
    /\ given' = <<>>
    /\ last' = [op |-> "relation_create"]
    /\ UNCHANGED <<threads, store_frame>>

NextStore ==
    \/ \E t \in Threads, block_num \in 0..MaxBlock : ReadLookup(t, block_num)
    \/ \E t \in Threads, outcome \in {"read_blocked", "panicked"} : ReadFile(t, outcome)
    \/ \E t \in Threads, block_num \in Given : WritePage(t, block_num, Filled)
    \/ \E t \in Threads : AllocRead(t)
    \/ \E t \in Threads : AllocFile(t)
    \/ \E t \in Threads : WriteCache(t)
    \/ \E t \in Threads : AllocMark(t)
    \/ Recreate

SpecStore == Init /\ [][NextStore]_vars

----------------------------------------------------------------------------
(* The visibility predicates on their own: a tuple whose header the setters *)
(* have written, judged under a snapshot and a current xid of the caller.   *)

\* Snapshot::new with MVCC mode: the bounds, at most one xid in progress
\* between them, and the command id.
Snapshots ==
    {[xmin |-> lo, xmax |-> hi, xip |-> xip, curcid |-> cid, mode |-> "MVCC"] :
         lo \in {FIRST_NORMAL_TRANSACTION_ID, MaxXid - 1}, hi \in {MaxXid - 1, MaxXid},
         xip \in {<<>>, <<FIRST_NORMAL_TRANSACTION_ID>>, <<MaxXid - 1>>},
         cid \in 0..MaxCid}

\* HeapTupleHeaderData::set_xmin_invalid
SetXminInvalid(on) ==
    /\ made' = [made EXCEPT !.tuple.header.t_infomask = SetBit(@, HEAP_XMIN_INVALID, on)]
    /\ last' = [op |-> "set"]
    /\ UNCHANGED tuple_frame

\* HeapTupleHeaderData::set_xmax_committed
SetXmaxCommitted(on) ==
    /\ made' = [made EXCEPT !.tuple.header.t_infomask = SetBit(@, HEAP_XMAX_COMMITTED, on)]
    /\ last' = [op |-> "set"]
    /\ UNCHANGED tuple_frame

\* HeapTupleHeaderData::set_xmax_invalid
SetXmaxInvalid(on) ==
    /\ made' = [made EXCEPT !.tuple.header.t_infomask = SetBit(@, HEAP_XMAX_INVALID, on)]
    /\ last' = [op |-> "set"]
    /\ UNCHANGED tuple_frame

\* HeapTupleHeaderData::set_xmax_is_locked_only
SetXmaxIsLockedOnly(on) ==
    /\ made' = [made EXCEPT !.tuple.header.t_infomask =
                                  SetBit(@, HEAP_XMAX_IS_LOCKED_ONLY, on)]
    /\ last' = [op |-> "set"]
    /\ UNCHANGED tuple_frame

\* HeapTuple::set_cid
SetCid(cid) ==
    /\ made' = [made EXCEPT !.tuple.header.t_cid = cid]
    /\ last' = [op |-> "set"]
    /\ UNCHANGED tuple_frame

\* The four predicates of Visibility called on the tuple.
Satisfies(snapshot, cur_xid) ==
    /\ last' = [op |-> "visibility", snapshot |-> snapshot, cur_xid |-> cur_xid,
                mvcc |-> heap_tuple_satisfies_mvcc(made.tuple, snapshot, cur_xid),
                any |-> heap_tuple_satisfies_any(made.tuple),
                self |-> heap_tuple_satisfies_self(made.tuple, cur_xid, snapshot.curcid),
                stable |-> heap_tuple_satisfies_stable(made.tuple, snapshot)]
    /\ UNCHANGED <<made, tuple_frame>>

NextVis ==
    \/ \E xid \in XidArgs : SetXmin(xid)
    \/ \E xid \in XidArgs : SetXmax(xid)
    \/ \E cid \in 0..(MaxCid + 1) : SetCid(cid)
    \/ \E on \in BOOLEAN : SetXminCommitted(on)
    \/ \E on \in BOOLEAN : SetXminInvalid(on)
    \/ \E on \in BOOLEAN : SetXmaxCommitted(on)
    \/ \E on \in BOOLEAN : SetXmaxInvalid(on)
    \/ \E on \in BOOLEAN : SetXmaxIsLockedOnly(on)
    \/ \E snapshot \in Snapshots, cur_xid \in BOOTSTRAP_TRANSACTION_ID..(MaxXid - 1) :
          Satisfies(snapshot, cur_xid)

SpecVis == Init /\ [][NextVis]_vars

----------------------------------------------------------------------------
(* HeapEngine (heap.rs) with the Transaction values it makes               *)
(* (transaction.rs): the engine keeps a clone of the transaction begin     *)
(* returns, and every Transaction value aborts its xid when it is dropped. *)

engine_frame == <<snaps, tuples, page, items, made, threads, given>>

\* The commit table after Transaction::commit(self) or Transaction::abort(self)
\* (how), which end with the drop of self, and after a drop alone: the call
\* on the manager first, then Drop::drop, which calls manager.abort(xid).
Ended(table, xid, how) ==
    Put(IF how = "commit" THEN Put(table, xid, TRUE)
        ELSE IF how = "abort" THEN Put(table, xid, FALSE)
        ELSE table,
        xid, FALSE)

\* HeapEngine::insert that does not ask for a current transaction.
engine_insert_any(tx, st, data) ==
    LET Wrapped(r) == [res |-> IF r.ok THEN "ok" ELSE "err", st |-> r.st, ctid |-> r.ctid]
    IN  Wrapped(insert(st, tx.xid, tx.cid, data))

\* HeapEngine::insert
engine_insert(tx, st, data) ==
    LET Wrapped(r) == [res |-> IF r.ok THEN "ok" ELSE "err", st |-> r.st, ctid |-> r.ctid]
    IN  IF ~tx.some
        THEN [res |-> "invalid_transaction", st |-> st, ctid |-> InvalidItemPointer]
        ELSE Wrapped(insert(st, tx.xid, tx.cid, data))

\* HeapEngine::update
engine_update(tx, st, ctid, new_data) ==
    IF ~tx.some
    THEN [res |-> "invalid_transaction", st |-> st, ctid |-> InvalidItemPointer]
    ELSE update(st, tx.xid, tx.cid, ctid, new_data)

\* HeapEngine::delete
engine_delete(tx, st, ctid) ==
    IF ~tx.some THEN [res |-> "invalid_transaction", st |-> st]
    ELSE delete(st, tx.xid, tx.cid, ctid)

\* HeapEngine::begin: Transaction::new (manager.begin, manager.get_cid), then
\* the assignment to current_tx, which drops the transaction it held, and the
\* new transaction goes to the caller.
EngBegin ==
    /\ current_xid < MaxXid
    /\ current_xid' = current_xid + 1
    /\ next_cid' = next_cid + 1
    /\ current_tx' = SomeTx(current_xid, next_cid)
    /\ handles' = handles \cup {SomeTx(current_xid, next_cid)}
    /\ in_progress' = IF current_tx.some
                      THEN retain(Append(in_progress, current_xid), current_tx.xid)
                      ELSE Append(in_progress, current_xid)
    /\ committed' = IF current_tx.some THEN Ended(committed, current_tx.xid, "drop")
                    ELSE committed
    /\ last' = [op |-> "engine_begin", xid |-> current_xid, cid |-> next_cid]
    /\ UNCHANGED <<storage_vars, engine_frame>>

\* HeapEngine::commit and HeapEngine::abort: current_tx.take(), then
\* tx.commit() or tx.abort() on what it held.
EngEnd(how) ==
    /\ committed' = IF current_tx.some THEN Ended(committed, current_tx.xid, how)
                    ELSE committed
    /\ in_progress' = IF current_tx.some THEN retain(in_progress, current_tx.xid)
                      ELSE in_progress
    /\ current_tx' = NoTx
    /\ last' = [op |-> "engine_end", how |-> how, some |-> current_tx.some,
                xid |-> current_tx.xid]
    /\ UNCHANGED <<current_xid, next_cid, storage_vars, handles, engine_frame>>

\* The caller of begin ends the Transaction it was given: tx.commit(),
\* tx.abort(), or letting it go out of scope (how = "drop").
TxEnd(tx, how) ==
    /\ tx \in handles
    /\ committed' = Ended(committed, tx.xid, how)
    /\ in_progress' = retain(in_progress, tx.xid)
    /\ handles' = handles \ {tx}
    /\ last' = [op |-> "tx_end", how |-> how, some |-> TRUE, xid |-> tx.xid]
    /\ UNCHANGED <<current_xid, next_cid, storage_vars, current_tx, engine_frame>>

\* HeapEngine::insert
EngInsert(data) ==
    /\ TotalItems(Storage, 0) < MaxItems
    /\ max_block < MaxBlock
    /\ LET Done(r) ==
               /\ SetStorage(r.st)
               /\ last' = [op |-> "engine_insert", res |-> r.res, ctid |-> r.ctid,
                           data |-> data]
       IN  Done(engine_insert(current_tx, Storage, data))
    /\ UNCHANGED <<tm_vars, engine_vars, engine_frame>>

\* HeapEngine::update
EngUpdate(ctid, data) ==
    /\ TotalItems(Storage, 0) < MaxItems
    /\ max_block < MaxBlock
    /\ LET Done(r) ==
               /\ SetStorage(r.st)
               /\ last' = [op |-> "engine_update", res |-> r.res, ctid |-> ctid]
       IN  Done(engine_update(current_tx, Storage, ctid, data))
    /\ UNCHANGED <<tm_vars, engine_vars, engine_frame>>

\* HeapEngine::delete
EngDelete(ctid) ==
    /\ LET Done(r) ==
               /\ SetStorage(r.st)
               /\ last' = [op |-> "engine_delete", res |-> r.res, ctid |-> ctid]
       IN  Done(engine_delete(current_tx, Storage, ctid))
    /\ UNCHANGED <<tm_vars, engine_vars, engine_frame>>

\* HeapEngine::scan: the snapshot is captured now, with the command id and
\* the xid of the current transaction, or CommandId::invalid() and
\* TransactionId::first_normal() when there is none.
EngScan ==
    /\ ScanOk(Storage)
    /\ last' = [op |-> "engine_scan",
                result |-> scan(Storage,
                                get_snapshot(current_xid, in_progress, current_tx.cid),
                                IF current_tx.some THEN current_tx.xid
                                ELSE FIRST_NORMAL_TRANSACTION_ID)]
    /\ UNCHANGED <<tm_vars, storage_vars, engine_vars, engine_frame>>

\* HeapEngine::vacuum
EngVacuum ==
    /\ LET Done(r) ==
               /\ SetStorage(r.st)
               /\ last' = [op |-> "engine_vacuum", ok |-> r.ok, count |-> Len(r.removed)]
       IN  Done(vacuum(Storage))
    /\ UNCHANGED <<tm_vars, engine_vars, engine_frame>>

NextEng ==
    \/ EngBegin
    \/ \E how \in {"commit", "abort"} : EngEnd(how)
    \/ \E tx \in handles, how \in {"commit", "abort", "drop"} : TxEnd(tx, how)
    \/ \E len \in {ShortLen, OverLen} : EngInsert(Payload(len, 1))
    \/ \E ctid \in CtidArgs(Storage) : EngUpdate(ctid, Payload(ShortLen, 1))
    \/ \E ctid \in CtidArgs(Storage) : EngDelete(ctid)
    \/ EngScan
    \/ EngVacuum

SpecEng == Init /\ [][NextEng]_vars

----------------------------------------------------------------------------
(* HeapRelation called by several threads (heap.rs).  The relation takes   *)
(* no lock of its own: each action is the part of a call up to and with    *)
(* one read_page or write_page of the storage, which lock the page cache   *)
(* for that call only; between two of them the other threads run.          *)

heap_frame == <<next_cid, snaps, tuples, page, items, made, given, engine_vars>>

\* Thread t is outside every call of the relation.
Free(t) == threads[t].pc \in {"idle", "returned"}

\* Thread t has returned from op with result res.
Return(t, op, res, xid, ctid) ==
    [threads EXCEPT ![t] = [pc |-> "returned", op |-> op, res |-> res, xid |-> xid,
                            ctid |-> ctid]]

\* The bytes thread t inserts.
Bytes(t) == <<[n |-> ShortLen, k |-> "run", b |-> t, h |-> NoHdr]>>

\* HeapRelation::insert up to the read of the page it will add to
\* (heap.rs:51-80); op tells whether update called it, for whose old_ctid.
InsertRead(t, op, xid, old) ==
    LET Read(target) ==
            IF target.err \/ ~ReadPageOk(target.st, target.block_num)
            THEN /\ threads' = Return(t, op, "err", xid, InvalidItemPointer)
                 /\ SetStorage(target.st)
            ELSE /\ threads' = [threads EXCEPT ![t] =
                                   [pc |-> "insert_write", op |-> op, xid |-> xid,
                                    block_num |-> target.block_num,
                                    page |-> read_page(target.st, target.block_num),
                                    old |-> old]]
                 /\ SetStorage(target.st)
    IN  Read(InsertTarget(Storage, HEAP_FIXED_HEADER_SIZE + ShortLen + ITEM_ID_SIZE))

\* Thread t works for the transaction of the t-th begin.
Xid(t) == FIRST_NORMAL_TRANSACTION_ID + t - 1

\* The calls of insert that have not written their page yet.
Inserting == {t \in Threads : threads[t].pc \in {"insert_write", "update_insert"}}

\* A thread calls insert.
HeapInsertRead(t, xid) ==
    /\ Free(t)
    /\ contains(in_progress, xid)
    /\ TotalItems(Storage, 0) + Cardinality(Inserting) < MaxItems
    /\ InsertRead(t, "insert", xid, [ctid |-> InvalidItemPointer])
    /\ last' = [op |-> "heap_step"]
    /\ UNCHANGED <<current_xid, committed, in_progress, heap_frame>>

\* HeapRelation::insert from the tuple it builds to the write of the page
\* (heap.rs:82-110); when update called it, update goes on.
HeapInsertWrite(t) ==
    /\ threads[t].pc = "insert_write"
    /\ LET Done(th, r) ==
               /\ SetStorage(r.st)
               /\ threads' =
                     IF ~r.ok THEN Return(t, th.op, "err", th.xid, InvalidItemPointer)
                     ELSE IF th.op = "insert" THEN Return(t, "insert", "ok", th.xid, r.ctid)
                     ELSE [threads EXCEPT ![t] =
                             [pc |-> "update_write", op |-> "update", xid |-> th.xid,
                              old |-> th.old, new_ctid |-> r.ctid]]
       IN  Done(threads[t],
                InsertOnto(Storage, threads[t].page, threads[t].block_num, threads[t].xid,
                           FIRST_COMMAND_ID, Bytes(t)))
    /\ last' = [op |-> "heap_step"]
    /\ UNCHANGED <<current_xid, committed, in_progress, heap_frame>>

\* HeapRelation::delete and HeapRelation::update up to the test of t_xmax
\* (heap.rs:158-166 and 120-131): the page read, the tuple of the slot, and
\* the sentinel when the tuple has a t_xmax.
TargetRead(t, op, xid, ctid) ==
    LET Checked(target, heap_tuple) ==
            IF heap_tuple.header.t_xmax # INVALID_TRANSACTION_ID
            THEN Return(t, op, "sentinel", xid, ctid)
            ELSE [threads EXCEPT ![t] =
                    [pc |-> IF op = "delete" THEN "delete_write" ELSE "update_insert",
                     op |-> op, xid |-> xid,
                     old |-> [ctid |-> ctid, page |-> target, tuple |-> heap_tuple]]]
        Read(target) ==
            Checked(target, TupleDeserialize(get_item(target, ctid.offset_number), Natts))
    IN  IF ~TargetOk(Storage, ctid) THEN Return(t, op, "err", xid, ctid)
        ELSE Read(read_page(Storage, ctid.block_number))

\* A thread calls delete or update.
HeapTargetRead(t, op, xid, ctid) ==
    /\ Free(t)
    /\ contains(in_progress, xid)
    /\ op = "update" => TotalItems(Storage, 0) + Cardinality(Inserting) < MaxItems
    /\ threads' = TargetRead(t, op, xid, ctid)
    /\ last' = [op |-> "heap_step"]
    /\ UNCHANGED <<tm_vars, storage_vars, heap_frame>>

\* The page of the old version with t_xmax, t_cid and t_ctid written in place.
Marked(old, xid, ctid) ==
    put_item(old.page, old.ctid.offset_number,
             TupleSerialize([old.tuple EXCEPT !.header.t_xmax = xid,
                                              !.header.t_cid = FIRST_COMMAND_ID,
                                              !.header.t_ctid = ctid]))

\* HeapRelation::delete from the mark to the write of the page (heap.rs:168-181).
HeapDeleteWrite(t) ==
    /\ threads[t].pc = "delete_write"
    /\ LET Done(th) ==
               /\ SetStorage(write_page(Storage, th.old.ctid.block_number,
                                        Marked(th.old, th.xid, th.old.tuple.header.t_ctid)))
               /\ threads' = Return(t, "delete", "ok", th.xid, th.old.ctid)
       IN  Done(threads[t])
    /\ last' = [op |-> "heap_step"]
    /\ UNCHANGED <<tm_vars, heap_frame>>

\* HeapRelation::update calling insert (heap.rs:133-135).
HeapUpdateInsert(t) ==
    /\ threads[t].pc = "update_insert"
    /\ InsertRead(t, "update", threads[t].xid, threads[t].old)
    /\ last' = [op |-> "heap_step"]
    /\ UNCHANGED <<current_xid, committed, in_progress, heap_frame>>

\* HeapRelation::update from the link to the write of the old page
\* (heap.rs:137-149).
HeapUpdateWrite(t) ==
    /\ threads[t].pc = "update_write"
    /\ LET Done(th) ==
               /\ SetStorage(write_page(Storage, th.old.ctid.block_number,
                                        Marked(th.old, th.xid, th.new_ctid)))
               /\ threads' = Return(t, "update", "ok", th.xid, th.old.ctid)
       IN  Done(threads[t])
    /\ last' = [op |-> "heap_step"]
    /\ UNCHANGED <<tm_vars, heap_frame>>

NextHeap ==
    \/ Begin
    \/ \E t \in Threads : HeapInsertRead(t, Xid(t))
    \/ \E t \in Threads : HeapInsertWrite(t)
    \/ \E t \in Threads, op \in {"delete", "update"}, ctid \in CtidArgs(Storage) :
          HeapTargetRead(t, op, Xid(t), ctid)
    \/ \E t \in Threads : HeapDeleteWrite(t)
    \/ \E t \in Threads : HeapUpdateInsert(t)
    \/ \E t \in Threads : HeapUpdateWrite(t)

SpecHeap == Init /\ [][NextHeap]_vars

\* The heap with its transaction manager; the command ids of the heap calls
\* are the callers' arguments.
Next ==
    \/ Begin
    \/ \E xid \in Running : Commit(xid)
    \/ \E xid \in Running : Abort(xid)
    \/ \E xid \in Running, cid \in 1..MaxCid : GetSnapshot(xid, cid)
    \/ \E xid \in Running, cid \in 1..MaxCid, data \in Payloads : Insert(xid, cid, data)
    \/ \E xid \in Running, cid \in 1..MaxCid, ctid \in CtidArgs(Storage), data \in Payloads :
          Update(xid, cid, ctid, data)
    \/ \E xid \in Running, cid \in 1..MaxCid, ctid \in CtidArgs(Storage) :
          Delete(xid, cid, ctid)
    \/ \E ctid \in CtidArgs(Storage) : Get(ctid)
    \/ \E xid \in Running : Scan(xid)
    \/ Vacuum

Spec == Init /\ [][Next]_vars

----------------------------------------------------------------------------
(* Properties.                                                             *)

\* The scan result holds the tuple of slot ctid as xid inserted it.
Returned(result, ctid, xid, data) ==
    \E i \in 1..Len(result) :
        /\ result[i].ctid = ctid
        /\ result[i].tuple.header.t_xmin = xid
        /\ result[i].tuple.data = data

\* The xids of the tuples a scan returned.
ReturnedXmins(result) == {result[i].tuple.header.t_xmin : i \in 1..Len(result)}

\* C1: right after update(xid, cid, old_ctid, new_bytes) returned
\* Some(new_ctid), get(old_ctid) is a tuple with t_xmax = xid and
\* t_ctid = new_ctid, and get(new_ctid) is a tuple with t_xmin = xid,
\* t_xmax = 0 and data = new_bytes, wherever the new version was placed.
C1_UpdateLinksVersions ==
    (last.op = "update" /\ last.res = "some") =>
        /\ GetSome(Storage, last.old_ctid)
        /\ get(Storage, last.old_ctid).header.t_xmax = last.xid
        /\ get(Storage, last.old_ctid).header.t_ctid = last.ctid
        /\ GetSome(Storage, last.ctid)
        /\ get(Storage, last.ctid).header.t_xmin = last.xid
        /\ get(Storage, last.ctid).header.t_xmax = INVALID_TRANSACTION_ID
        /\ get(Storage, last.ctid).data = last.data

\* C1, where it does hold: an update whose new version went to another block.
C1_OtherBlockReached ==
    /\ last.op = "update" /\ last.res = "some"
    /\ last.ctid.block_number # last.old_ctid.block_number
    /\ GetSome(Storage, last.ctid)
    /\ get(Storage, last.ctid).data = last.data

\* C2: a scan by T2 under a snapshot captured while another transaction T1
\* was in progress returns no tuple of T1 (no tuple with t_xmin = T1),
\* whether T1 has committed since or not.
C2_Isolation ==
    last.op = "scan" =>
        \A x \in ReturnedXmins(last.result) : x = last.xid \/ x \notin last.snap.running

\* C2: T2 scans after T1, which was running at the capture and whose tuple is
\* in the heap, has committed.
C2_ScanAfterCommit ==
    /\ last.op = "scan"
    /\ \E c \in DOMAIN tuples :
          /\ tuples[c].xmin # last.xid
          /\ tuples[c].xmin \in last.snap.running
          /\ is_committed(committed, tuples[c].xmin)
          /\ GetSome(Storage, c)
          /\ get(Storage, c).header.t_xmin = tuples[c].xmin

\* C3: a scan by another transaction under a snapshot captured after
\* commit(T1) returns every tuple T1 inserted and nobody deleted.
C3_VisibleAfterCommit ==
    last.op = "scan" =>
        \A c \in DOMAIN tuples :
            (/\ tuples[c].xmin # last.xid
             /\ tuples[c].xmax = INVALID_TRANSACTION_ID
             /\ is_committed(last.snap.table, tuples[c].xmin))
            => Returned(last.result, c, tuples[c].xmin, tuples[c].data)

\* C4: a scan by another transaction under a snapshot captured after
\* abort(xid) returns no tuple with t_xmin = xid.
C4_AbortedInvisible ==
    last.op = "scan" =>
        \A x \in ReturnedXmins(last.result) :
            ~(/\ x # last.xid
              /\ x \in DOMAIN last.snap.table
              /\ ~last.snap.table[x])

\* C5: vacuum removes a tuple only when its deleter (t_xmax) is committed
\* and t_xmax is below the xmin of every snapshot a running transaction holds.
C5_VacuumGated ==
    last.op = "vacuum" =>
        \A i \in 1..Len(last.removed) :
            /\ is_committed(committed, last.removed[i].xmax)
            /\ \A x \in DOMAIN snaps : last.removed[i].xmax < snaps[x].snapshot.xmin

\* C6: once delete(ctid) has returned true, every later delete of that ctid
\* returns false and changes nothing, and get(ctid) is still the tuple, with
\* t_xmax = the xid of the delete that succeeded.
C6_DeleteOnce ==
    /\ (last.op = "delete" /\ last.again) => (last.res = "false" /\ ~last.changed)
    /\ \A c \in DOMAIN tuples :
          Deleted(tuples, c) =>
              /\ GetSome(Storage, c)
              /\ get(Storage, c).header.t_xmax = tuples[c].xmax

\* C7: a scan by transaction C under a snapshot C captured returns every
\* tuple C inserted and nobody deleted, before C commits.
C7_OwnWritesVisible ==
    last.op = "scan" =>
        \A c \in DOMAIN tuples :
            (tuples[c].xmin = last.xid /\ tuples[c].xmax = INVALID_TRANSACTION_ID)
            => Returned(last.result, c, last.xid, tuples[c].data)

\* C8: right after insert(xid, cid, bytes) succeeded with ctid, the offset
\* of ctid is >= 1 and get(ctid) is a tuple with t_xmin = xid, t_xmax = 0,
\* t_cid = cid, t_ctid = ctid and data = bytes; the first insert into a newly
\* created heap returns (0, 1).
C8_InsertThenGet ==
    (last.op = "insert" /\ last.ok) =>
        /\ last.ctid.offset_number >= 1
        /\ GetSome(Storage, last.ctid)
        /\ get(Storage, last.ctid).header.t_xmin = last.xid
        /\ get(Storage, last.ctid).header.t_xmax = INVALID_TRANSACTION_ID
        /\ get(Storage, last.ctid).header.t_cid = last.cid
        /\ get(Storage, last.ctid).header.t_ctid = last.ctid
        /\ get(Storage, last.ctid).data = last.data
        /\ (last.fresh => last.ctid = ItemPointer(0, 1))

\* C8: an insert that went to a block other than 0, into a heap that was
\* not new.
C8_InsertedElsewhere ==
    /\ last.op = "insert" /\ last.ok
    /\ ~last.fresh
    /\ last.ctid.block_number > 0

\* The scan of a transaction that begins now, under the snapshot it captures.
FreshScan == scan(Storage, get_snapshot(current_xid, in_progress, FIRST_COMMAND_ID), current_xid)

\* C9: when a committed transaction inserted and deleted the n tuples that
\* await vacuum, and no transaction is running, vacuum returns n, a following
\* scan returns none of them, and every page that held one has more free
\* space than before.
C9_VacuumReclaims ==
    (/\ last.op = "vacuum" /\ last.ok
     /\ in_progress = <<>>
     /\ last.pending # {}
     /\ \E x \in Allocated :
           /\ is_committed(committed, x)
           /\ \A p \in last.pending : p.by = "delete" /\ p.xmin = x /\ p.xmax = x)
    => /\ last.count = Cardinality(last.pending)
       /\ \A p \in last.pending :
             /\ \A i \in 1..Len(FreshScan) : FreshScan[i].ctid # p.ctid
             /\ free_space(read_page(Storage, p.ctid.block_number))
                  > last.free_before[p.ctid.block_number]

\* C10: after every operation of the transaction manager, in any sequence,
\* no xid with committed[xid] = true is a member of in_progress.
C10_CommittedNotInProgress ==
    \A x \in DOMAIN committed : committed[x] => ~contains(in_progress, x)

\* C10: a commit of a begun transaction has acted while another one is running.
C10_CommitAmongRunning ==
    /\ last.op = "commit"
    /\ is_committed(committed, last.xid)
    /\ in_progress # <<>>

\* C24: an update or a delete of a tuple whose stored t_xmax is not 0 returns
\* the sentinel (Ok(None), Ok(false)) and leaves the cache, the block files
\* and the page count as they were.
C24_ConflictChangesNothing ==
    [][LET Conflict(st, ctid) ==
               TargetOk(st, ctid) /\ get(st, ctid).header.t_xmax # INVALID_TRANSACTION_ID
       IN  /\ (last'.op = "update" /\ Conflict(Storage, last'.old_ctid))
                 => (last'.res = "none" /\ UNCHANGED storage_vars)
           /\ (last'.op = "delete" /\ Conflict(Storage, last'.ctid))
                 => (last'.res = "false" /\ UNCHANGED storage_vars)]_vars

\* C24: an update has met a tuple that a delete or an update had marked.
C24_UpdateConflictMet ==
    /\ last.op = "update"
    /\ last.res = "none"
    /\ GetSome(Storage, last.old_ctid)
    /\ get(Storage, last.old_ctid).header.t_xmax # INVALID_TRANSACTION_ID

----------------------------------------------------------------------------
(* The transaction manager under concurrency.                              *)

\* C25: every begin returns the xid one below the next to assign, from 2
\* on, with the xid in in_progress at its return; no two threads hold the
\* same xid and in_progress lists no xid twice, also when threads call
\* begin concurrently.
C25_BeginSequence ==
    LET Holds(t) == threads[t].pc \in {"begin_push", "running", "commit_retain",
                                       "abort_retain"}
    IN  /\ last.op = "begin" =>
               /\ last.xid = current_xid - 1
               /\ last.xid >= FIRST_NORMAL_TRANSACTION_ID
               /\ contains(in_progress, last.xid)
        /\ \A t, u \in Threads :
               (t # u /\ Holds(t) /\ Holds(u)) => threads[t].xid # threads[u].xid
        /\ \A i, j \in 1..Len(in_progress) : i # j => in_progress[i] # in_progress[j]

\* C25: a second begin has returned while the transaction of the first one
\* is still running.
C25_SecondBeginReturned ==
    /\ last.op = "begin"
    /\ last.xid = FIRST_NORMAL_TRANSACTION_ID + 1
    /\ \A t \in Threads : threads[t].pc = "running"

\* C26: the snapshot get_snapshot(curcid) returns has xmax = the next xid to
\* assign, xip = in_progress, xmin = the least xid in progress or xmax - 1
\* when there is none, the curcid passed and the MVCC mode.
C26_SnapshotFields ==
    last.op = "get_snapshot" =>
        /\ last.snapshot.xmax = current_xid
        /\ last.snapshot.xip = in_progress
        /\ last.snapshot.xmin = IF in_progress = <<>> THEN last.snapshot.xmax - 1
                                 ELSE SeqMin(in_progress)
        /\ last.snapshot.curcid = last.cid
        /\ last.snapshot.mode = "MVCC"

\* C26: a snapshot taken with no begin in between has been returned while a
\* transaction is running.
C26_QuietSnapshot ==
    /\ last.op = "get_snapshot"
    /\ last.snapshot.xmax = current_xid
    /\ last.snapshot.xip # <<>>

\* C11: no thread observes is_committed(xid) = true at a moment when xid is
\* still in in_progress (which is the xip of a snapshot captured at that
\* moment): committed[xid] = true becomes observable no earlier than
\* in_progress loses xid.
C11_CommittedAfterRetain ==
    (last.op = "is_committed" /\ last.res) => ~contains(last.in_progress, last.xid)

\* C11: a thread has observed is_committed(xid) = true of a transaction
\* another thread committed.
C11_CommitObserved ==
    /\ last.op = "is_committed"
    /\ last.res
    /\ ~contains(last.in_progress, last.xid)

\* C12: every snapshot S that get_snapshot returns, also one captured while
\* other threads run begin, commit or abort, has S.xmin <= x < S.xmax for
\* every x in S.xip.
C12_XipWithinBounds ==
    last.op = "get_snapshot" =>
        \A i \in 1..Len(last.snapshot.xip) :
            /\ last.snapshot.xmin <= last.snapshot.xip[i]
            /\ last.snapshot.xip[i] < last.snapshot.xmax

\* C12: get_snapshot has returned a snapshot that lists a running transaction.
C12_SnapshotWithXip ==
    /\ last.op = "get_snapshot"
    /\ last.snapshot.xip # <<>>
    /\ \A i \in 1..Len(last.snapshot.xip) : last.snapshot.xip[i] < last.snapshot.xmax

----------------------------------------------------------------------------
(* The page on its own.                                                    *)

\* C13: after Page::new and after every sequence of add_item (successful or
\* failing) and remove_item calls, pd_lower >= 24, pd_upper <= page_size and
\* pd_lower <= pd_upper.
C13_HeaderBounds ==
    /\ page.header.pd_lower >= PAGE_HEADER_SIZE
    /\ page.header.pd_upper <= page.page_size
    /\ page.header.pd_lower <= page.header.pd_upper

\* C13: a slot has been removed from a page that took a second item after a
\* failing add_item or another remove_item.
C13_RemovedTwice ==
    /\ last.op = "remove_item"
    /\ last.res = "ok"
    /\ item_count(page) >= 2
    /\ \E o \in 1..item_count(page) :
         o # last.offset /\ page.item_id_data[o].flags = LP_DEAD

\* C14: every item id with status USED lies inside the tuple-body region
\* (offset >= pd_upper and offset + length <= page_size) and get_item on it
\* returns the bytes stored there by add_item; no add_item or remove_item of
\* another slot overwrites or frees it.
C14_UsedBodiesIntact ==
    \A o \in 1..item_count(page) :
        page.item_id_data[o].flags = LP_USED =>
            /\ page.item_id_data[o].off >= page.header.pd_upper
            /\ page.item_id_data[o].off + page.item_id_data[o].len <= page.page_size
            /\ HasItem(page, o)
            /\ get_item(page, o) = items[o]

\* C15: for every page state reached through new, add_item, remove_item and
\* writes in place, from_raw(serialize(page)) succeeds and gives a page with
\* the same header fields, the same item ids and the same bytes from
\* get_item for every slot.
C15_PageRoundTrip ==
    last.op = "round_trip" =>
        /\ last.res = "ok"
        /\ last.restored.header = page.header
        /\ last.restored.item_id_data = page.item_id_data
        /\ \A o \in 1..item_count(page) :
             /\ HasItem(last.restored, o) = HasItem(page, o)
             /\ HasItem(page, o) => get_item(last.restored, o) = get_item(page, o)

\* C17: add_item(bytes) fails with NoFreeSpace exactly when
\* pd_upper - pd_lower < len(bytes) + 4, a failing call leaves the page
\* unchanged, and in every other case it succeeds.
C17_NoFreeSpaceExactly ==
    last.op = "add_item" =>
        /\ (last.res = "no_free_space")
             = (free_space(last.before) < BLen(last.bytes) + ITEM_ID_SIZE)
        /\ last.res = "no_free_space" => page = last.before
        /\ last.res # "no_free_space" => last.res = "ok"

\* C18: a successful add_item(bytes) returns the previous item count + 1,
\* lowers pd_upper by len(bytes), raises pd_lower by 4 (free space drops by
\* len(bytes) + 4), marks the new item id USED, and get_item of the returned
\* offset gives bytes.
C18_AddItemEffect ==
    (last.op = "add_item" /\ last.res = "ok") =>
        /\ last.offset = item_count(last.before) + 1
        /\ page.header.pd_upper = last.before.header.pd_upper - BLen(last.bytes)
        /\ page.header.pd_lower = last.before.header.pd_lower + ITEM_ID_SIZE
        /\ free_space(page) = free_space(last.before) - (BLen(last.bytes) + ITEM_ID_SIZE)
        /\ item_count(page) = last.offset
        /\ page.item_id_data[last.offset].flags = LP_USED
        /\ HasItem(page, last.offset)
        /\ get_item(page, last.offset) = last.bytes

\* C18: add_item has succeeded on a page that holds an item and a removed
\* slot already.
C18_AddedThird ==
    /\ last.op = "add_item"
    /\ last.res = "ok"
    /\ last.offset = MaxSlots
    /\ \E o \in 1..item_count(last.before) : last.before.item_id_data[o].flags = LP_DEAD

\* C19: remove_item(offset) only marks that item id DEAD (and sets header
\* flags): pd_lower, pd_upper, free_space and the item ids and bodies of
\* every other slot are unchanged.
C19_RemoveItemFrame ==
    (last.op = "remove_item" /\ last.res = "ok") =>
        /\ page.item_id_data[last.offset].flags = LP_DEAD
        /\ page.header.pd_lower = last.before.header.pd_lower
        /\ page.header.pd_upper = last.before.header.pd_upper
        /\ free_space(page) = free_space(last.before)
        /\ \A o \in 1..item_count(page) :
             o # last.offset =>
                 /\ page.item_id_data[o] = last.before.item_id_data[o]
                 /\ HasItem(last.before, o) => get_item(page, o) = get_item(last.before, o)

\* C20: get_item(offset) and get_item_mut(offset) return the stored body if
\* and only if 1 <= offset <= item count and that item id is USED; for
\* offset 0, an offset beyond the item count or a DEAD slot they return absent
\* without failing; the span has the stored length.
C20_GetItemTotal ==
    last.op \in {"get_item", "get_item_mut"} =>
        /\ last.res # "panic"
        /\ (last.res = "some")
             = (/\ 1 <= last.offset
                /\ last.offset <= item_count(last.before)
                /\ last.before.item_id_data[last.offset].flags = LP_USED)
        /\ last.res = "some" => BLen(last.bytes) = last.before.item_id_data[last.offset].len

\* C21: Page::from_raw accepts an image exactly when its header has
\* pd_lower >= 24, pd_upper <= page_size, pd_lower <= pd_upper and
\* pd_special = page_size, and fails otherwise.
C21_FromRawValidates ==
    last.op = "from_raw" =>
        (last.res = "ok") = (/\ last.lower >= PAGE_HEADER_SIZE
                             /\ last.upper <= last.len
                             /\ last.lower <= last.upper
                             /\ last.special = last.len)

\* C21: an image that breaks the layout bounds was refused.
C21_BadLayoutRefused ==
    /\ last.op = "from_raw"
    /\ last.lower > last.upper
    /\ last.special = last.len
    /\ last.res = "err"

----------------------------------------------------------------------------
(* The tuple on its own.                                                   *)

\* C16: for every tuple, with or without a null bitmap and of any payload
\* length, deserialize(serialize(tuple), natts) succeeds and returns a tuple
\* with the same header and the same data.
C16_TupleRoundTrip ==
    last.op = "tuple_round_trip" =>
        /\ last.ok
        /\ last.back.header = made.tuple.header
        /\ last.back.data = made.tuple.data

\* C16: a tuple with a null bitmap, a payload and a header the setters have
\* written has gone through serialize and deserialize.
C16_BitmapTupleDecoded ==
    /\ last.op = "tuple_round_trip"
    /\ made.tuple.null_bitmap.some
    /\ made.tuple.data # <<>>
    /\ made.tuple.header.t_xmin # INVALID_TRANSACTION_ID
    /\ made.tuple.header.t_ctid # InvalidItemPointer

----------------------------------------------------------------------------
(* The storage under concurrency.                                          *)

\* C22: every read_page returns: no thread is left waiting for ever for the
\* lock of the cache, and none panics, also on a cache miss for a block
\* whose file exists.
C22_ReadPageReturns ==
    \A t \in Threads : threads[t].pc \notin {"read_blocked", "panicked"}

\* C22: a read_page of a block that is neither cached nor on disk has
\* returned PageNotFound.
C22_NotFoundReturned ==
    /\ last.op = "read_page"
    /\ last.res = "not_found"
    /\ threads[last.thread].pc = "idle"

\* C23: no allocate_page returns a block number an earlier call returned,
\* and none stores its empty page on a block an earlier call returned.
C23_AllocateUnique ==
    /\ last.op = "allocate_page" => ~last.dup
    /\ last.op = "write_page" => ~last.taken

\* C23: two calls of allocate_page have returned.
C23_AllocatedTwice ==
    /\ last.op = "allocate_page"
    /\ Len(given) = 2

----------------------------------------------------------------------------
(* The visibility predicates on their own.                                 *)

\* C27: heap_tuple_satisfies_mvcc returns visible exactly when the creation
\* test and the obsolescence test of the decision table hold, the table read
\* as written: below snapshot.xmin a tuple with XMIN_INVALID is not visible
\* and every other one is.
C27_MvccTable ==
    last.op = "visibility" =>
        LET T == made.tuple.header
            S == last.snapshot
            C == last.cur_xid
            Creation ==
                IF T.t_xmin = C THEN TRUE
                ELSE IF T.t_xmin >= S.xmin /\ T.t_xmin < S.xmax
                     THEN IF xmin_committed(T) THEN TRUE
                          ELSE IF xmin_invalid(T) THEN FALSE
                          ELSE ~contains(S.xip, T.t_xmin)
                ELSE IF T.t_xmin < S.xmin THEN ~xmin_invalid(T)
                ELSE FALSE
            Obsolescence ==
                IF T.t_xmax = INVALID_TRANSACTION_ID THEN TRUE
                ELSE IF T.t_xmax = C THEN xmax_is_locked_only(T)
                ELSE IF T.t_xmax >= S.xmax THEN TRUE
                ELSE IF T.t_xmax < S.xmin
                     THEN ~xmax_committed(T) /\ xmax_invalid(T)
                ELSE /\ ~xmax_committed(T)
                     /\ xmax_invalid(T) \/ xmax_is_locked_only(T)
        IN  last.mvcc = (Creation /\ Obsolescence)

\* C27, amended: the same with XMIN_COMMITTED taking precedence over
\* XMIN_INVALID below snapshot.xmin as it does inside the snapshot's range.
C27_MvccTableCommittedFirst ==
    last.op = "visibility" =>
        LET T == made.tuple.header
            S == last.snapshot
            C == last.cur_xid
            Creation ==
                \/ T.t_xmin = C
                \/ /\ T.t_xmin < S.xmax
                   /\ \/ xmin_committed(T)
                      \/ /\ ~xmin_invalid(T)
                         /\ T.t_xmin >= S.xmin => ~contains(S.xip, T.t_xmin)
            Obsolescence ==
                \/ T.t_xmax = INVALID_TRANSACTION_ID
                \/ T.t_xmax = C /\ xmax_is_locked_only(T)
                \/ T.t_xmax # C /\ T.t_xmax >= S.xmax
                \/ /\ T.t_xmax # C
                   /\ T.t_xmax < S.xmax
                   /\ ~xmax_committed(T)
                   /\ \/ xmax_invalid(T)
                      \/ T.t_xmax >= S.xmin /\ xmax_is_locked_only(T)
        IN  last.mvcc = (Creation /\ Obsolescence)

\* C27: a tuple deleted by the current xid without a lock, created inside
\* the range of a snapshot that lists its xmin, has been judged.
C27_OwnDeleteJudged ==
    /\ last.op = "visibility"
    /\ made.tuple.header.t_xmax = last.cur_xid
    /\ made.tuple.header.t_xmin # last.cur_xid
    /\ made.tuple.header.t_xmin >= last.snapshot.xmin
    /\ made.tuple.header.t_xmin < last.snapshot.xmax
    /\ xmin_committed(made.tuple.header)
    /\ contains(last.snapshot.xip, made.tuple.header.t_xmin)
    /\ ~last.mvcc

\* C28: for a current xid that is neither t_xmin nor t_xmax,
\* heap_tuple_satisfies_stable returns what heap_tuple_satisfies_mvcc
\* returns.
C28_StableIsMvcc ==
    (/\ last.op = "visibility"
     /\ last.cur_xid # made.tuple.header.t_xmin
     /\ last.cur_xid # made.tuple.header.t_xmax)
        => last.stable = last.mvcc

C30_SelfByCommand ==
    (last.op = "visibility" /\ made.tuple.header.t_xmin = last.cur_xid) =>
        /\ made.tuple.header.t_cid > last.snapshot.curcid => ~last.self
        /\ (/\ made.tuple.header.t_cid <= last.snapshot.curcid
            /\ made.tuple.header.t_xmax = INVALID_TRANSACTION_ID) => last.self

\* C30: a tuple the current xid wrote in the current command, with no
\* deleter, has been judged.
C30_OwnCurrentCommand ==
    /\ last.op = "visibility"
    /\ made.tuple.header.t_xmin = last.cur_xid
    /\ made.tuple.header.t_cid = last.snapshot.curcid
    /\ made.tuple.header.t_cid > 0
    /\ made.tuple.header.t_xmax = INVALID_TRANSACTION_ID
    /\ last.self

\* The snapshot get_snapshot returns when it is called now.
SnapshotNow == get_snapshot(current_xid, in_progress, FIRST_COMMAND_ID)

\* The tuple stored in slot ctid is the one the clients were told of.
StoredAsTold(ctid) ==
    /\ ctid \in DOMAIN tuples
    /\ GetSome(Storage, ctid)
    /\ get(Storage, ctid).header.t_xmin = tuples[ctid].xmin
    /\ get(Storage, ctid).header.t_xmax = tuples[ctid].xmax

\* C32: after a vacuum that ran once the inserter of a tuple had aborted,
\* the slot of that tuple is no longer in use (it is DEAD).
C32_AbortedReclaimed ==
    (last.op = "vacuum" /\ last.ok) =>
        \A c \in DOMAIN tuples :
            TableStatus(committed, tuples[c].xmin) = "Aborted"
            => ~HasItem(read_page(Storage, c.block_number), c.offset_number)

\* C32: a vacuum has removed a tuple of an aborted inserter, one that the
\* inserter had deleted itself.
C32_AbortedOwnDeleteRemoved ==
    /\ last.op = "vacuum" /\ last.ok
    /\ \E p \in last.pending :
          /\ p.xmin = p.xmax
          /\ TableStatus(committed, p.xmin) = "Aborted"
          /\ \E i \in 1..Len(last.removed) : last.removed[i].ctid = p.ctid

\* C35: for every tuple in the heap and every current xid, the MVCC result
\* under the snapshot captured now is the same for the tuple as stored and
\* for the tuple with the hint bits set that the transaction table dictates
\* (COMMITTED for a committed xmin or xmax, INVALID for an aborted one).
C35_HintsOnlyCache ==
    \A c \in CtidArgs(Storage) :
        GetSome(Storage, c) =>
            LET Same(t, snapshot) ==
                    \A cur_xid \in Allocated :
                        heap_tuple_satisfies_mvcc(t, snapshot, cur_xid)
                          = heap_tuple_satisfies_mvcc(
                                set_hint_bits(t, TableStatus(committed, t.header.t_xmin),
                                              TableStatus(committed, t.header.t_xmax)),
                                snapshot, cur_xid)
            IN  Same(get(Storage, c), SnapshotNow)

\* C35: a tuple of a committed inserter is in the heap without hint bits and
\* is judged as it is with XMIN_COMMITTED set.
C35_CommittedUnhinted ==
    \E c \in DOMAIN tuples :
        /\ StoredAsTold(c)
        /\ TableStatus(committed, tuples[c].xmin) = "Comitted"
        /\ tuples[c].xmax = INVALID_TRANSACTION_ID
        /\ ~xmin_committed(get(Storage, c).header)
        /\ \A cur_xid \in Allocated :
              heap_tuple_satisfies_mvcc(get(Storage, c), SnapshotNow, cur_xid)

\* C37: a vacuum, and an insert after it, leave every tuple with t_xmax = 0
\* as it was: get(ctid) on the stored page returns the same header and data.
C37_VacuumKeepsLive ==
    [][last'.op \in {"vacuum", "insert"} =>
          \A c \in CtidArgs(Storage) :
              (GetSome(Storage, c)
                 /\ get(Storage, c).header.t_xmax = INVALID_TRANSACTION_ID)
              => (GetSome(Storage', c) /\ get(Storage', c) = get(Storage, c))]_vars

\* C37: vacuum has removed a tuple from a page that holds a live one.
C37_VacuumedBesideLive ==
    /\ last.op = "vacuum" /\ last.ok /\ last.count > 0
    /\ \E c \in DOMAIN tuples :
          /\ tuples[c].xmax = INVALID_TRANSACTION_ID
          /\ \E i \in 1..Len(last.removed) :
                last.removed[i].ctid.block_number = c.block_number

\* C40: a tuple whose inserter committed and whose deleter (t_xmax) aborted
\* is visible under the snapshot captured now, to every current xid other
\* than the deleter.
C40_AbortedDeleteLive ==
    \A c \in DOMAIN tuples :
        (/\ StoredAsTold(c)
         /\ TableStatus(committed, tuples[c].xmin) = "Comitted"
         /\ TableStatus(committed, tuples[c].xmax) = "Aborted")
        => \A cur_xid \in (Allocated \cup {current_xid}) \ {tuples[c].xmax} :
               heap_tuple_satisfies_mvcc(get(Storage, c), SnapshotNow, cur_xid)

\* C40: the deleter of a committed tuple has aborted and the tuple is still
\* stored with the deleter's xid as t_xmax.
C40_DeleterAborted ==
    /\ last.op = "abort"
    /\ \E c \in DOMAIN tuples :
          /\ StoredAsTold(c)
          /\ tuples[c].xmax = last.xid
          /\ TableStatus(committed, tuples[c].xmin) = "Comitted"

\* C31: an insert, update or delete of the engine called while the engine
\* has no current transaction (before any begin, after commit or abort)
\* fails with InvalidTransaction and leaves the pages and the transaction
\* table as they were.
C31_NoTransactionRefused ==
    [][(last'.op \in {"engine_insert", "engine_update", "engine_delete"}
          /\ ~current_tx.some)
       => (last'.res = "invalid_transaction" /\ UNCHANGED <<tm_vars, storage_vars>>)]_vars

\* C31: the engine has refused an insert after a transaction that wrote a
\* tuple was ended.
C31_RefusedAfterEnd ==
    /\ last.op = "engine_insert"
    /\ last.res = "invalid_transaction"
    /\ committed # <<>>
    /\ TotalItems(Storage, 0) > 0

\* C36: when Transaction::commit or HeapEngine::commit of a transaction has
\* returned, is_committed(xid) is true and xid is not in in_progress.
C36_CommitFinal ==
    (last.op \in {"engine_end", "tx_end"} /\ last.how = "commit" /\ last.some) =>
        /\ is_committed(committed, last.xid)
        /\ ~contains(in_progress, last.xid)

\* C36: HeapEngine::commit has returned for a transaction that was current.
C36_EngineCommitReturned ==
    /\ last.op = "engine_end" /\ last.how = "commit" /\ last.some
    /\ ~contains(in_progress, last.xid)

\* C38: while the engine has a current transaction, its xid is in
\* in_progress and is not recorded as aborted, both while the caller keeps
\* the Transaction value begin returned and when the caller has dropped it.
C38_CurrentInProgress ==
    (/\ current_tx.some
     /\ \/ current_tx \in handles
        \/ (last.op = "tx_end" /\ last.how = "drop" /\ last.xid = current_tx.xid)) =>
        /\ contains(in_progress, current_tx.xid)
        /\ TableStatus(committed, current_tx.xid) # "Aborted"

\* C38: the engine has inserted for a current transaction whose Transaction
\* value the caller still holds.
C38_HandleKept ==
    /\ current_tx.some
    /\ current_tx \in handles
    /\ last.op = "engine_insert" /\ last.res = "ok"
    /\ contains(in_progress, current_tx.xid)

\* C39: an insert that returns an error leaves the relation as it was: the
\* page count and the contents of every page are the same as before.
C39_FailedInsertFrame ==
    [][(last'.op = "engine_insert" /\ last'.res = "err") =>
          /\ page_count(Storage') = page_count(Storage)
          /\ \A bn \in 0..(page_count(Storage) - 1) :
                read_page(Storage', bn) = read_page(Storage, bn)]_vars

\* C39: an insert of a tuple that fits no page has returned an error.
C39_OversizeRefused ==
    /\ last.op = "engine_insert" /\ last.res = "err"
    /\ BLen(last.data) = OverLen

\* Thread t has returned from a successful call of one of ops.
Succeeded(t, ops) ==
    threads[t].pc = "returned" /\ threads[t].op \in ops /\ threads[t].res = "ok"

\* C33: when two threads have each returned Ok from insert, their ctids are
\* distinct and get(ctid) returns each caller's own xid and data.
C33_NoLostInsert ==
    \A t \in Threads, u \in Threads :
        (t # u /\ Succeeded(t, {"insert"}) /\ Succeeded(u, {"insert"})) =>
            /\ threads[t].ctid # threads[u].ctid
            /\ GetSome(Storage, threads[t].ctid)
            /\ get(Storage, threads[t].ctid).header.t_xmin = threads[t].xid
            /\ get(Storage, threads[t].ctid).data = Bytes(t)

\* C33: two threads have inserted one after the other and hold distinct
\* ctids.
C33_InsertedInTurn ==
    \A t \in Threads :
        /\ Succeeded(t, {"insert"})
        /\ threads[t].ctid = ItemPointer(0, t)
        /\ get(Storage, threads[t].ctid).header.t_xmin = threads[t].xid

\* C34: when two threads have each returned from a delete or update of the
\* same ctid, at most one of the calls succeeded, and the t_xmax of the
\* tuple is the xid of the call that succeeded.
C34_OneWriterWins ==
    \A t \in Threads, u \in Threads :
        (/\ t # u
         /\ Succeeded(t, {"delete", "update"})
         /\ threads[u].pc = "returned" /\ threads[u].op \in {"delete", "update"}
         /\ threads[u].ctid = threads[t].ctid) =>
            /\ threads[u].res # "ok"
            /\ GetSome(Storage, threads[t].ctid)
            /\ get(Storage, threads[t].ctid).header.t_xmax = threads[t].xid

\* C34: one thread has deleted a tuple and another has then been refused
\* with the sentinel.
C34_SecondRefused ==
    \E t \in Threads, u \in Threads :
        /\ Succeeded(t, {"delete"})
        /\ threads[u].pc = "returned" /\ threads[u].op = "delete"
        /\ threads[u].res = "sentinel"
        /\ threads[u].ctid = threads[t].ctid
        /\ threads[u].xid # threads[t].xid

====
